---- MODULE Spec2Model ----
(***************************************************************************)
(* liblogger: the dispatch core of the logging runtime.                    *)
(*                                                                         *)
(* The model follows liblogger/src/logger.rs: the process-wide             *)
(* LoggerInner guarded by a std::sync::Mutex, the bounded tokio mpsc       *)
(* channel created by every successful init_with_config, the background    *)
(* task process_log_messages that drains it, the producer-side             *)
(* synchronous fallback of LoggerInner::log, and Logger::shutdown.         *)
(* LogLevel::should_log is translated from liblogger/src/config.rs.        *)
(*                                                                         *)
(* A log record is identified by the number of the call that made it; its  *)
(* text (timestamp, message, file, line, module, context) is carried       *)
(* unchanged by both delivery paths and is abstracted to that number.      *)
(* An Option is a sequence of length at most one: <<>> is None, <<x>> is   *)
(* Some(x).                                                                *)
(***************************************************************************)
EXTENDS Integers, Sequences, FiniteSets, TLC

(***************************************************************************)
(* Bounds of the model.                                                    *)
(***************************************************************************)
\* Producer threads calling the logging API.
NumProducers == 2
\* Log calls made in one behaviour (the record numbers are 1..MaxRecords).
MaxRecords == 3
\* Calls of Logger::init_with_config in one behaviour.
MaxInits == 2
\* Capacity of the delivery channel. The code creates mpsc::channel(1024)
\* (logger.rs:103); the model keeps the channel bounded and scales the
\* capacity down so that the full channel is reached.
ChannelCapacity == 2

\* Largest LogConfig::max_file_size_mb drawn.
MaxFileSizeMb == 1
\* Longest log line, in halves of a megabyte.
MaxLineHalves == 3
\* Largest backup number a rotation may produce.
MaxIndex == 4
\* Calls of write_log / write_log_async in one behaviour.
MaxWrites == 2

Producers == 1..NumProducers
RecordIds == 1..MaxRecords
Channels == 1..MaxInits

(***************************************************************************)
(* config.rs: LogLevel                                                     *)
(***************************************************************************)
LogLevel == {"Debug", "Info", "Warn", "Error"}

\* The total order Debug < Info < Warn < Error of the specification.
LevelRank(l) ==
    CASE l = "Debug" -> 0
      [] l = "Info"  -> 1
      [] l = "Warn"  -> 2
      [] l = "Error" -> 3

\* A gate that lets a record through only if it is strictly above the
\* threshold.
should_log_strict(self, threshold) == LevelRank(self) > LevelRank(threshold)

\* LogLevel::should_log, match arm by match arm.
should_log(self, threshold) ==
    CASE threshold = "Debug" -> TRUE
      [] threshold = "Info"  -> IF self = "Debug" THEN FALSE ELSE TRUE
      [] threshold = "Warn"  -> IF self \in {"Debug", "Info"} THEN FALSE ELSE TRUE
      [] threshold = "Error" -> IF self = "Error" THEN TRUE ELSE FALSE

\* LogConfig, reduced to the field the dispatch core reads.
LogConfig == [threshold : LogLevel]

None == <<>>
Some(x) == <<x>>

(***************************************************************************)
(* State                                                                   *)
(***************************************************************************)
VARIABLES
    \* LoggerInner (logger.rs:43-52)
    initialized,    \* bool
    config,         \* Option<LogConfig>
    output,         \* Option<Box<dyn LogOutput>>: Some(n), the backend built by the n-th init call
    async_sender,   \* Option<Sender<LogMessage>>: Some(c), the send handle of channel c
    async_enabled,  \* bool
    \* LOGGER_INSTANCE's Mutex and the RUNTIME cell (logger.rs:29-30)
    poisoned,       \* the mutex was held by a thread that panicked
    holder,         \* the producer inside LoggerInner::log, 0 if the mutex is free
    runtime,        \* RUNTIME holds a Tokio runtime
    \* the delivery channels and their consumer tasks
    chan,           \* chan[c]: the records buffered in channel c, oldest first
    cons,           \* cons[c]: where the task process_log_messages of channel c is
    inflight,       \* inflight[c]: the record the task has received and is writing, 0 if none
    \* producers inside Logger::log_with_metadata
    pc,             \* pc[p]: "idle", "locked" (in LoggerInner::log) or "syncwrite" (in output.write_log)
    cur,            \* cur[p]: the record of the call in progress, 0 if none
    \* the calls made so far
    inits,          \* number of init_with_config calls made
    nextId,         \* number of the next log call
    lvl,            \* lvl[p]: the level of the call in progress, "none" if none
    \* Logger::shutdown, called by the application thread
    shut,           \* [pc, seen, mark, chan]
    \* what the environment has observed
    sent,           \* sent[c]: the records try_send accepted on channel c, in order
    recvd,          \* recvd[c]: the records recv() returned to the task of channel c, in order
    rejected,       \* the records whose try_send returned Err
    syncWrites,     \* the records output.write_log was called with by a producer, in order
    out,            \* the backend's output: [id, via] per successful write, in order
    writeErr,       \* [id, via]: a backend write that returned Err
    stderr,         \* [id, kind]: lines written to stderr
    \* outputs.rs: the log folder and the FileOutput instances writing into it
    dir,            \* dir[name]: the file the directory entry `name` refers to, 0 if there is none
    fsize,          \* fsize[f]: length in bytes of file f
    fo,             \* fo[w]: the FileOutput of writer w and where the writer is in its code
    max_file_size_mb, \* LogConfig::max_file_size_mb
    rotated,        \* the backup numbers of the renames done so far, in order
    nwrites,        \* number of write_log / write_log_async calls made
    \* config.rs: one evaluation of the level functions
    larg,           \* the arguments: [self, threshold, text]
    lres,           \* the results: [logged, parsed, name], each None until computed
    \* outputs.rs: one record handed to the backends' write functions
    rec,            \* the record: [timestamp, level, message, file, line, module, context]
    emitted,        \* emitted[s]: what write function s wrote for rec, None until it has run
    posts,          \* the bodies of the POST requests sent to the endpoint, in order
    hres,           \* [via, send, ret] per HttpOutput write call made, in order
    \* liblogger_macros: one call of a function wrapped by log_retries
    rt,             \* [pc, is_async, max_attempts, attempts, delay, results, ret]
    \* liblogger_macros: a function wrapped by circuit_breaker and its callers
    FAILURE_COUNT,  \* static AtomicU32
    LAST_SUCCESS,   \* static AtomicU64
    cb,             \* cb[c]: caller c's call: [pc, last_success_time, result, ret]
    breaker,        \* [is_async, threshold, ncalls]: the function and the calls made
    \* liblogger_macros: a function wrapped by throttle_log and its callers
    COUNTER,        \* static AtomicUsize
    LAST_MINUTE,    \* static AtomicUsize
    SKIPPED_COUNT,  \* static AtomicUsize
    th,             \* th[c]: caller c's call: [pc, current_minute, skipped, should_log, ran]
    throttle,       \* [rate, ncalls, suppressed]: the function, the calls made, those not logged
    clock,          \* SystemTime::now(), in minutes since the epoch
    lines           \* the log lines of the macro: [minute, kind, skipped], in order

loggerVars == <<initialized, config, output, async_sender, async_enabled>>
mutexVars == <<poisoned, holder, runtime>>
taskVars == <<chan, cons, inflight>>
callVars == <<pc, cur, lvl, inits, nextId>>
seenVars == <<sent, recvd, rejected, syncWrites, out, writeErr, stderr>>
dispatchVars == <<loggerVars, mutexVars, taskVars, callVars, shut, seenVars>>
fileVars == <<dir, fsize, fo, max_file_size_mb, rotated, nwrites>>
levelVars == <<larg, lres>>
backendVars == <<rec, emitted, posts, hres>>
retryVars == <<rt>>
breakerVars == <<FAILURE_COUNT, LAST_SUCCESS, cb, breaker>>
throttleVars == <<COUNTER, LAST_MINUTE, SKIPPED_COUNT, th, throttle, clock, lines>>
macroVars == <<retryVars, breakerVars, throttleVars>>
vars == <<dispatchVars, fileVars, levelVars, backendVars, macroVars>>

\* LoggerInner::new, the unlocked mutex, the empty RUNTIME cell, no call made.
LoggerNew ==
    /\ initialized = FALSE
    /\ config = None
    /\ output = None
    /\ async_sender = None
    /\ async_enabled = FALSE
    /\ poisoned = FALSE
    /\ holder = 0
    /\ runtime = FALSE
    /\ chan = [c \in Channels |-> <<>>]
    /\ cons = [c \in Channels |-> "none"]
    /\ inflight = [c \in Channels |-> 0]
    /\ pc = [p \in Producers |-> "idle"]
    /\ cur = [p \in Producers |-> 0]
    /\ inits = 0
    /\ nextId = 1
    /\ lvl = [p \in Producers |-> "none"]
    /\ shut = [pc |-> "idle", seen |-> {}, mark |-> 0, chan |-> 0]
    /\ sent = [c \in Channels |-> <<>>]
    /\ recvd = [c \in Channels |-> <<>>]
    /\ rejected = {}
    /\ syncWrites = <<>>
    /\ out = <<>>
    /\ writeErr = {}
    /\ stderr = {}

(***************************************************************************)
(* outputs.rs: the names in the log folder                                 *)
(***************************************************************************)
\* The two FileOutput instances of a logger in file mode: the one in
\* LoggerInner::output, written by producers under the mutex, and the one
\* process_log_messages builds for itself.
Writers == {"producer", "consumer"}

\* A file name is the sequence of its dot-separated parts. file_path is
\* "app.log" (LogConfig::default): file_stem "app", extension "log".
file_stem == "app"
extension == "log"
file_path == <<file_stem, extension>>

\* The decimal numerals of the backup numbers.
Numerals == <<"1", "2", "3", "4", "5", "6", "7", "8", "9">>

\* u32's to_string, as format!("{}.{}", extension, max_index + 1) uses it.
to_string(n) == Numerals[n]

\* str::parse::<u32>: Some(n) for a numeral, None for any other text.
ParseU32(t) ==
    IF \E n \in DOMAIN Numerals : Numerals[n] = t
    THEN Some(CHOOSE n \in DOMAIN Numerals : Numerals[n] = t)
    ELSE None

\* self.file_path.with_extension(format!("{}.{}", extension, n)).
new_path(n) == <<file_stem, extension, to_string(n)>>

\* The names the model's log folder can hold: the log file, its backups,
\* and a file whose name has the backup prefix but no number.
Names ==
    {file_path, <<file_stem, extension, "bak">>} \cup {new_path(n) : n \in 1..MaxIndex}

\* A FileOutput that has not been constructed.
NoFileOutput ==
    [pc |-> "none", current_file |-> None, async_file |-> None, current_size |-> 0,
     max_index |-> 0, len |-> 0, after |-> "none", ret |-> "none"]

\* The file variables of a logger that is not in file mode.
NoFiles ==
    /\ dir = [n \in Names |-> 0]
    /\ fsize = <<>>
    /\ fo = [w \in Writers |-> NoFileOutput]
    /\ max_file_size_mb = 0
    /\ rotated = <<>>
    /\ nwrites = 0

(***************************************************************************)
(* config.rs: the arguments of the level functions                         *)
(***************************************************************************)
\* No evaluation of a level function is in progress.
NoLevelCall ==
    /\ larg = [self |-> "Info", threshold |-> "Info", text |-> <<>>]
    /\ lres = [logged |-> None, parsed |-> None, name |-> None]

(***************************************************************************)
(* outputs.rs: the record handed to a backend                              *)
(***************************************************************************)
\* The write functions of the backends: ConsoleOutput and FileOutput, each
\* through LogOutput::write_log and AsyncLogOutputTrait::write_log_async.
Sinks == {"console", "console_async", "file", "file_async"}

\* No backend write function is under evaluation and no request was sent.
NoBackendCall ==
    /\ rec = [timestamp |-> "T1", level |-> "Info", message |-> "m1", file |-> "main.rs",
              line |-> 1, module |-> "app", context |-> None]
    /\ emitted = [s \in Sinks |-> None]
    /\ posts = <<>>
    /\ hres = <<>>

(***************************************************************************)
(* liblogger_macros: the functions wrapped by the attribute macros         *)
(***************************************************************************)
\* The threads calling a wrapped function.
Callers == {"c1", "c2"}

\* No function wrapped by log_retries has been called.
NoRetryCall ==
    rt = [pc |-> "none", is_async |-> FALSE, max_attempts |-> 0, attempts |-> 0,
          delay |-> 0, results |-> <<>>, ret |-> None]

\* A caller outside the function wrapped by circuit_breaker.
NoBreakerCall == [pc |-> "idle", last_success_time |-> 0, result |-> None, ret |-> None]

\* The statics of a function wrapped by circuit_breaker that was never
\* called.
NoBreaker ==
    /\ FAILURE_COUNT = 0
    /\ LAST_SUCCESS = 0
    /\ cb = [c \in Callers |-> NoBreakerCall]
    /\ breaker = [is_async |-> FALSE, threshold |-> 0, ncalls |-> 0]

\* A caller outside the function wrapped by throttle_log.
NoThrottleCall ==
    [pc |-> "idle", current_minute |-> 0, skipped |-> 0, should_log |-> FALSE, ran |-> FALSE]

\* The statics of a function wrapped by throttle_log that was never called,
\* in the first minute of the model's clock.
NoThrottle ==
    /\ COUNTER = 0
    /\ LAST_MINUTE = 0
    /\ SKIPPED_COUNT = 0
    /\ th = [c \in Callers |-> NoThrottleCall]
    /\ throttle = [rate |-> 1, ncalls |-> 0, suppressed |-> 0]
    /\ clock = 1
    /\ lines = <<>>

\* No wrapped function has been called.
NoMacroCall ==
    /\ NoRetryCall
    /\ NoBreaker
    /\ NoThrottle

\* The process at start: the logger of LoggerInner::new, no file output,
\* no level function under evaluation, no backend write in progress, no
\* wrapped function called.
Init ==
    /\ NoMacroCall
    /\ NoBackendCall
    /\ LoggerNew
    /\ NoFiles
    /\ NoLevelCall

(***************************************************************************)
(* Helpers over the state                                                  *)
(***************************************************************************)
Range(s) == {s[i] : i \in DOMAIN s}

\* The channels created so far: one per init_with_config that reached line 103.
Created == {c \in Channels : cons[c] # "none"}

\* The receiver of channel c is owned by its task and lives as long as the
\* task does (logger.rs:110-114, 187).
ReceiverAlive(c) == cons[c] \in {"spawned", "running", "writing"}

\* tokio's Sender::try_send with a blocking send: the caller waits for space.
try_send_blocking(c) ==
    IF ~ReceiverAlive(c) THEN "Closed"
    ELSE IF Len(chan[c]) >= ChannelCapacity THEN "Wait"
    ELSE "Ok"

\* tokio's Sender::try_send on channel c: Full when the buffer holds its
\* capacity, Closed when the receiver is gone, never a wait.
try_send(c) ==
    IF ~ReceiverAlive(c) THEN "Closed"
    ELSE IF Len(chan[c]) >= ChannelCapacity THEN "Full"
    ELSE "Ok"

\* The mutex guard is dropped at the end of Logger::log_with_metadata's block.
Release(p) ==
    /\ holder' = 0
    /\ pc' = [pc EXCEPT ![p] = "idle"]
    /\ cur' = [cur EXCEPT ![p] = 0]
    /\ lvl' = [lvl EXCEPT ![p] = "none"]

(***************************************************************************)
(* Logger::init_with_config (logger.rs:243-265) locks the mutex, taking    *)
(* the guard out of a poisoned lock, and runs LoggerInner::init_with_config *)
(* (logger.rs:83-120) under it. The four actions are its four ways out.    *)
(***************************************************************************)
\* A lock() that does not return while the mutex is poisoned.
CanInitUnpoisoned ==
    /\ inits < MaxInits
    /\ holder = 0
    /\ ~poisoned

CanInit ==
    /\ inits < MaxInits
    /\ holder = 0

\* A successful re-initialization that keeps the send handle the logger
\* already has instead of storing the new one.
InitOkKeepSender(t) ==
    /\ CanInit
    /\ inits' = inits + 1
    /\ config' = Some([threshold |-> t])
    /\ output' = Some(inits + 1)
    /\ runtime' = TRUE
    /\ LET c == Cardinality(Created) + 1 IN
         /\ async_sender' = IF async_sender = None THEN Some(c) ELSE async_sender
         /\ cons' = [cons EXCEPT ![c] = "spawned"]
    /\ initialized' = TRUE
    /\ async_enabled' = TRUE
    /\ UNCHANGED <<poisoned, holder, chan, inflight, pc, cur, lvl, nextId, shut, seenVars>>
    /\ UNCHANGED <<fileVars, levelVars, backendVars, macroVars>>

\* Every step returns Ok: lines 84, 87, 90-100, 103-104, 110-114, 116-117.
InitOk(t) ==
    /\ CanInit
    /\ inits' = inits + 1
    /\ config' = Some([threshold |-> t])
    /\ output' = Some(inits + 1)
    /\ runtime' = TRUE
    /\ LET c == Cardinality(Created) + 1 IN
         \* the previous Sender, if any, is dropped by the assignment
         /\ async_sender' = Some(c)
         /\ cons' = [cons EXCEPT ![c] = "spawned"]
    /\ initialized' = TRUE
    /\ async_enabled' = TRUE
    /\ UNCHANGED <<poisoned, holder, chan, inflight, pc, cur, lvl, nextId, shut, seenVars>>
    /\ UNCHANGED <<fileVars, levelVars, backendVars, macroVars>>

\* create_log_output returns Err at line 87: line 84 has run, nothing else.
InitErrOutput(t) ==
    /\ CanInit
    /\ inits' = inits + 1
    /\ config' = Some([threshold |-> t])
    /\ UNCHANGED <<initialized, output, async_sender, async_enabled, mutexVars,
                   taskVars, pc, cur, lvl, nextId, shut, seenVars>>
    /\ UNCHANGED <<fileVars, levelVars, backendVars, macroVars>>

\* A failing initialization that has set the initialized flag before the
\* runtime is created.
InitErrRuntimeEarlyFlag(t) ==
    /\ CanInit
    /\ ~runtime
    /\ inits' = inits + 1
    /\ config' = Some([threshold |-> t])
    /\ output' = Some(inits + 1)
    /\ initialized' = TRUE
    /\ async_enabled' = TRUE
    /\ UNCHANGED <<async_sender, mutexVars,
                   taskVars, pc, cur, lvl, nextId, shut, seenVars>>
    /\ UNCHANGED <<fileVars, levelVars, backendVars, macroVars>>

\* Runtime::new returns Err at lines 94-95 (only while RUNTIME is empty):
\* lines 84 and 87 have run.
InitErrRuntime(t) ==
    /\ CanInit
    /\ ~runtime
    /\ inits' = inits + 1
    /\ config' = Some([threshold |-> t])
    /\ output' = Some(inits + 1)
    /\ UNCHANGED <<initialized, async_sender, async_enabled, mutexVars,
                   taskVars, pc, cur, lvl, nextId, shut, seenVars>>
    /\ UNCHANGED <<fileVars, levelVars, backendVars, macroVars>>

\* A panic under the guard inside create_log_output (outputs.rs:141-163:
\* println! on a closed stdout, or max_file_size_mb * 1024 * 1024 overflowing
\* in a build with overflow checks): line 84 has run and the unwinding
\* guard poisons the mutex.
InitPanic(t) ==
    /\ CanInit
    /\ inits' = inits + 1
    /\ config' = Some([threshold |-> t])
    /\ poisoned' = TRUE
    /\ UNCHANGED <<initialized, output, async_sender, async_enabled, holder, runtime,
                   taskVars, pc, cur, lvl, nextId, shut, seenVars>>
    /\ UNCHANGED <<fileVars, levelVars, backendVars, macroVars>>

(***************************************************************************)
(* Logger::log_with_metadata (logger.rs:287-308)                           *)
(***************************************************************************)
\* A call that enters without waiting for the mutex to be free.
CanLogNoMutex(p) ==
    /\ pc[p] = "idle"
    /\ nextId <= MaxRecords

\* The caller is outside the logger and logger.lock() can return: no other
\* thread holds the guard.
CanLog(p) ==
    /\ pc[p] = "idle"
    /\ holder = 0
    /\ nextId <= MaxRecords

\* logger.lock() returns Ok: the producer holds the guard and is about to
\* call LoggerInner::log (line 298-299).
LogLock(p, l) ==
    /\ CanLog(p)
    /\ ~poisoned
    /\ holder' = p
    /\ pc' = [pc EXCEPT ![p] = "locked"]
    /\ cur' = [cur EXCEPT ![p] = nextId]
    /\ lvl' = [lvl EXCEPT ![p] = l]
    /\ nextId' = nextId + 1
    /\ UNCHANGED <<loggerVars, poisoned, runtime, taskVars, inits, shut, seenVars>>
    /\ UNCHANGED <<fileVars, levelVars, backendVars, macroVars>>

\* logger.lock() returns Err(PoisonError): the else branch writes the line
\* "... | MUTEX POISONED" to stderr and the call returns (lines 300-306).
LogPoisoned(p, l) ==
    /\ CanLog(p)
    /\ poisoned
    /\ nextId' = nextId + 1
    /\ stderr' = stderr \cup {[id |-> nextId, kind |-> "poisoned"]}
    /\ UNCHANGED <<loggerVars, mutexVars, taskVars, pc, cur, lvl, inits, shut,
                   sent, recvd, rejected, syncWrites, out, writeErr>>
    /\ UNCHANGED <<fileVars, levelVars, backendVars, macroVars>>

(***************************************************************************)
(* LoggerInner::log (logger.rs:122-183), under the guard                   *)
(***************************************************************************)
TrySendError == {"Full", "Closed"}

\* The producer writes through its own backend whatever try_send returned.
FallbackAlways(res) == TRUE

\* `if let Err(_) = sender.try_send(log_message)` (line 155).
FallbackNeeded(res) == res # "Ok"

\* The producer is to call output.write_log if there is an output
\* (lines 157, 169); otherwise the call returns.
ToSyncWrite(p) ==
    IF output # None
    THEN /\ pc' = [pc EXCEPT ![p] = "syncwrite"]
         /\ UNCHANGED <<holder, cur, lvl>>
    ELSE Release(p)

\* The stderr branch taken only while no configuration is stored.
StderrFallbackNoConfig == config = None

\* `if !self.initialized || !self.async_enabled` (line 127).
StderrFallback == ~initialized \/ ~async_enabled

LoggerInner_log(p) ==
    /\ pc[p] = "locked"
    /\ LET id == cur[p] IN
       IF StderrFallback
       THEN \* lines 127-137: the stderr fallback writer, at every level
            /\ stderr' = stderr \cup {[id |-> id, kind |-> "uninit"]}
            /\ Release(p)
            /\ UNCHANGED <<chan, sent, rejected>>
       ELSE IF config = None \/ ~should_log(lvl[p], config[1].threshold)
       THEN \* lines 140-141: no config or below the threshold, nothing is done
            /\ Release(p)
            /\ UNCHANGED <<chan, sent, rejected, stderr>>
       ELSE IF async_sender # None
       THEN \* lines 143-168
            LET c == async_sender[1]
                res == try_send(c)
            IN  /\ IF res = "Ok"
                   THEN /\ chan' = [chan EXCEPT ![c] = Append(@, id)]
                        /\ sent' = [sent EXCEPT ![c] = Append(@, id)]
                        /\ UNCHANGED rejected
                   ELSE /\ res \in TrySendError
                        /\ rejected' = rejected \cup {id}
                        /\ UNCHANGED <<chan, sent>>
                /\ IF FallbackNeeded(res) THEN ToSyncWrite(p) ELSE Release(p)
                /\ UNCHANGED stderr
       ELSE \* lines 169-180: no sender
            /\ ToSyncWrite(p)
            /\ UNCHANGED <<chan, sent, rejected, stderr>>
    /\ UNCHANGED <<loggerVars, poisoned, runtime, cons, inflight, inits, nextId,
                   shut, recvd, syncWrites, out, writeErr>>
    /\ UNCHANGED <<fileVars, levelVars, backendVars, macroVars>>

\* The producer returns without calling output.write_log.
LogSyncWriteSkipped(p) ==
    /\ pc[p] = "syncwrite"
    /\ Release(p)
    /\ UNCHANGED <<loggerVars, poisoned, runtime, taskVars, inits, nextId,
                   shut, seenVars>>
    /\ UNCHANGED <<fileVars, levelVars, backendVars, macroVars>>

\* output.write_log returns Ok (lines 158-166, 171-179): the record is in
\* the backend's output.
LogSyncWriteOk(p) ==
    /\ pc[p] = "syncwrite"
    /\ syncWrites' = Append(syncWrites, cur[p])
    /\ out' = Append(out, [id |-> cur[p], via |-> "sync"])
    /\ Release(p)
    /\ UNCHANGED <<loggerVars, poisoned, runtime, taskVars, inits, nextId,
                   shut, sent, recvd, rejected, writeErr, stderr>>
    /\ UNCHANGED <<fileVars, levelVars, backendVars, macroVars>>

\* output.write_log returns Err: `let _ =` discards it, nothing is reported.
LogSyncWriteErr(p) ==
    /\ pc[p] = "syncwrite"
    /\ syncWrites' = Append(syncWrites, cur[p])
    /\ writeErr' = writeErr \cup {[id |-> cur[p], via |-> "sync"]}
    /\ Release(p)
    /\ UNCHANGED <<loggerVars, poisoned, runtime, taskVars, inits, nextId,
                   shut, sent, recvd, rejected, out, stderr>>
    /\ UNCHANGED <<fileVars, levelVars, backendVars, macroVars>>

(***************************************************************************)
(* process_log_messages (logger.rs:187-203), the task of channel c         *)
(***************************************************************************)
\* create_async_log_output returns Ok (line 189): the task enters its loop.
ConsumerStart(c) ==
    /\ cons[c] = "spawned"
    /\ cons' = [cons EXCEPT ![c] = "running"]
    /\ UNCHANGED <<loggerVars, mutexVars, chan, inflight, callVars, shut, seenVars>>
    /\ UNCHANGED <<fileVars, levelVars, backendVars, macroVars>>

\* create_async_log_output returns Err (line 189): the task returns, the
\* receiver is dropped with what the channel holds, and the spawning block
\* (lines 111-113) reports the error.
ConsumerStartErr(c) ==
    /\ cons[c] = "spawned"
    /\ cons' = [cons EXCEPT ![c] = "failed"]
    /\ chan' = [chan EXCEPT ![c] = <<>>]
    /\ stderr' = stderr \cup {[id |-> 0, kind |-> "task_error"]}
    /\ UNCHANGED <<loggerVars, mutexVars, inflight, callVars, shut,
                   sent, recvd, rejected, syncWrites, out, writeErr>>
    /\ UNCHANGED <<fileVars, levelVars, backendVars, macroVars>>

\* A receive that returns the newest buffered record instead of the oldest.
ConsumerRecvNewest(c) ==
    /\ cons[c] = "running"
    /\ chan[c] # <<>>
    /\ LET n == Len(chan[c]) IN
         /\ inflight' = [inflight EXCEPT ![c] = chan[c][n]]
         /\ recvd' = [recvd EXCEPT ![c] = Append(@, chan[c][n])]
         /\ chan' = [chan EXCEPT ![c] = SubSeq(@, 1, n - 1)]
    /\ cons' = [cons EXCEPT ![c] = "writing"]
    /\ UNCHANGED <<loggerVars, mutexVars, callVars, shut,
                   sent, rejected, syncWrites, out, writeErr, stderr>>
    /\ UNCHANGED <<fileVars, levelVars, backendVars, macroVars>>

\* receiver.recv().await returns Some(msg) (line 192): the oldest record.
ConsumerRecv(c) ==
    /\ cons[c] = "running"
    /\ chan[c] # <<>>
    /\ inflight' = [inflight EXCEPT ![c] = Head(chan[c])]
    /\ recvd' = [recvd EXCEPT ![c] = Append(@, Head(chan[c]))]
    /\ chan' = [chan EXCEPT ![c] = Tail(@)]
    /\ cons' = [cons EXCEPT ![c] = "writing"]
    /\ UNCHANGED <<loggerVars, mutexVars, callVars, shut,
                   sent, rejected, syncWrites, out, writeErr, stderr>>
    /\ UNCHANGED <<fileVars, levelVars, backendVars, macroVars>>

\* run_async_log returns Ok (lines 195, 206-226).
ConsumerWriteOk(c) ==
    /\ cons[c] = "writing"
    /\ out' = Append(out, [id |-> inflight[c], via |-> "async"])
    /\ inflight' = [inflight EXCEPT ![c] = 0]
    /\ cons' = [cons EXCEPT ![c] = "running"]
    /\ UNCHANGED <<loggerVars, mutexVars, chan, callVars, shut,
                   sent, recvd, rejected, syncWrites, writeErr, stderr>>
    /\ UNCHANGED <<fileVars, levelVars, backendVars, macroVars>>

\* A write error that ends the task, as `?` on the result would.
ConsumerWriteErrStops(c) ==
    /\ cons[c] = "writing"
    /\ writeErr' = writeErr \cup {[id |-> inflight[c], via |-> "async"]}
    /\ stderr' = stderr \cup {[id |-> inflight[c], kind |-> "async_error"]}
    /\ inflight' = [inflight EXCEPT ![c] = 0]
    /\ cons' = [cons EXCEPT ![c] = "done"]
    /\ chan' = [chan EXCEPT ![c] = <<>>]
    /\ UNCHANGED <<loggerVars, mutexVars, callVars, shut,
                   sent, recvd, rejected, syncWrites, out>>
    /\ UNCHANGED <<fileVars, levelVars, backendVars, macroVars>>

\* run_async_log returns Err: eprintln!("Async log error") and the loop
\* goes on (lines 197-199).
ConsumerWriteErr(c) ==
    /\ cons[c] = "writing"
    /\ writeErr' = writeErr \cup {[id |-> inflight[c], via |-> "async"]}
    /\ stderr' = stderr \cup {[id |-> inflight[c], kind |-> "async_error"]}
    /\ inflight' = [inflight EXCEPT ![c] = 0]
    /\ cons' = [cons EXCEPT ![c] = "running"]
    /\ UNCHANGED <<loggerVars, mutexVars, chan, callVars, shut,
                   sent, recvd, rejected, syncWrites, out>>
    /\ UNCHANGED <<fileVars, levelVars, backendVars, macroVars>>

\* The task returns as soon as its Sender is dropped, leaving what the
\* channel still holds.
ConsumerExitEarly(c) ==
    /\ cons[c] = "running"
    /\ async_sender # Some(c)
    /\ cons' = [cons EXCEPT ![c] = "done"]
    /\ chan' = [chan EXCEPT ![c] = <<>>]
    /\ UNCHANGED <<loggerVars, mutexVars, inflight, callVars, shut,
                   sent, recvd, rejected, syncWrites, out, writeErr, stderr>>
    /\ UNCHANGED <<fileVars, levelVars, backendVars, macroVars>>

\* receiver.recv().await returns None (line 192): the channel is empty and
\* its only Sender was dropped by a later init_with_config; the task ends.
ConsumerExit(c) ==
    /\ cons[c] = "running"
    /\ chan[c] = <<>>
    /\ async_sender # Some(c)
    /\ cons' = [cons EXCEPT ![c] = "done"]
    /\ UNCHANGED <<loggerVars, mutexVars, chan, inflight, callVars, shut, seenVars>>
    /\ UNCHANGED <<fileVars, levelVars, backendVars, macroVars>>

ConsumerStep(c) ==
    \/ ConsumerStart(c)
    \/ ConsumerStartErr(c)
    \/ ConsumerRecv(c)
    \/ ConsumerWriteOk(c)
    \/ ConsumerWriteErr(c)
    \/ ConsumerExit(c)

(***************************************************************************)
(* Logger::shutdown (logger.rs:311-327), called once by the application    *)
(***************************************************************************)
AcceptedIds == UNION {Range(sent[c]) : c \in Channels}

\* Lines 313-319: with a runtime, a task that only sleeps is spawned and the
\* caller starts its own two-second sleep. Without one the call returns Ok
\* at once (line 326). seen keeps the records enqueued before the call.
ShutdownCall ==
    /\ shut.pc = "idle"
    /\ IF runtime
       THEN shut' = [shut EXCEPT !.pc = "sleeping", !.seen = AcceptedIds]
       ELSE shut' = [pc |-> "returned", seen |-> AcceptedIds, mark |-> nextId, chan |-> 0]
    /\ UNCHANGED <<loggerVars, mutexVars, taskVars, callVars, seenVars>>
    /\ UNCHANGED <<fileVars, levelVars, backendVars, macroVars>>

\* A shutdown that tears the logger down when it returns.
ShutdownReturnReset ==
    /\ shut.pc = "sleeping"
    /\ holder = 0
    /\ shut' = [shut EXCEPT !.pc = "returned", !.mark = nextId,
                            !.chan = IF async_sender = None THEN 0 ELSE async_sender[1]]
    /\ initialized' = FALSE
    /\ config' = None
    /\ UNCHANGED <<output, async_sender, async_enabled, mutexVars, taskVars, callVars, seenVars>>
    /\ UNCHANGED <<fileVars, levelVars, backendVars, macroVars>>

\* Lines 322-326: the sleep is over, whatever the consumer has done in the
\* meantime (one write of the HTTP backend alone may last http_timeout_seconds,
\* 5 by default); shutdown returns Ok. mark is the number of the first log
\* call made after the return, chan the channel fed at the return.
ShutdownReturn ==
    /\ shut.pc = "sleeping"
    /\ shut' = [shut EXCEPT !.pc = "returned", !.mark = nextId,
                            !.chan = IF async_sender = None THEN 0 ELSE async_sender[1]]
    /\ UNCHANGED <<loggerVars, mutexVars, taskVars, callVars, seenVars>>
    /\ UNCHANGED <<fileVars, levelVars, backendVars, macroVars>>

(***************************************************************************)
(* Specifications                                                          *)
(***************************************************************************)
\* The dispatch core: initialization, log calls and the consumer tasks.
Next ==
    \/ \E t \in LogLevel : InitOk(t)
    \/ \E t \in LogLevel : InitErrOutput(t)
    \/ \E t \in LogLevel : InitErrRuntime(t)
    \/ \E t \in LogLevel : InitPanic(t)
    \/ \E p \in Producers, l \in LogLevel : LogLock(p, l)
    \/ \E p \in Producers, l \in LogLevel : LogPoisoned(p, l)
    \/ \E p \in Producers : LoggerInner_log(p)
    \/ \E p \in Producers : LogSyncWriteOk(p)
    \/ \E p \in Producers : LogSyncWriteErr(p)
    \/ \E c \in Channels : ConsumerStep(c)

\* Logger::shutdown reads RUNTIME and writes nothing the dispatch core
\* reads; Spec leaves shut at its initial value.
Spec == Init /\ [][Next]_vars

\* The Tokio runtime keeps running every spawned task that can make a step.
SpecFair == Spec /\ \A c \in Channels : WF_vars(ConsumerStep(c))

\* The dispatch core together with one call of Logger::shutdown.
NextShutdown ==
    \/ Next
    \/ ShutdownCall
    \/ ShutdownReturn

SpecShutdown == Init /\ [][NextShutdown]_vars

(***************************************************************************)
(* What the observations say about one record                              *)
(***************************************************************************)
Count(s, x) == Cardinality({i \in DOMAIN s : s[i] = x})

\* The log calls made so far.
Called == 1..(nextId - 1)

\* How often the consumer tasks received record id, over all channels.
TimesReceived(id) ==
    Cardinality({c \in Channels : id \in Range(recvd[c])})
    + Cardinality({c \in Channels : Count(recvd[c], id) > 1})

\* How often record id stands in the backend's output, by either path.
TimesInOutput(id) == Cardinality({i \in DOMAIN out : out[i].id = id})

WrittenVia(id, via) == \E i \in DOMAIN out : out[i] = [id |-> id, via |-> via]

\* The environment failed record id on the async path: the backend of its
\* consumer could not be built, or the write of the record returned Err.
BackendFailed(id) ==
    \/ \E c \in Channels : id \in Range(sent[c]) /\ cons[c] = "failed"
    \/ [id |-> id, via |-> "async"] \in writeErr

\* The call of record id has returned.
Returned(id) == id \in Called /\ \A p \in Producers : cur[p] # id

Pos(s, x) == CHOOSE i \in DOMAIN s : s[i] = x

IsPrefix(s, t) == Len(s) <= Len(t) /\ \A i \in DOMAIN s : s[i] = t[i]

(***************************************************************************)
(* The claims                                                              *)
(***************************************************************************)

\* C1: in the initialized state a call that runs LoggerInner::log hands its
\* record to a delivery path (it is enqueued, or the producer goes on to the
\* synchronous write) if and only if its level is at or above the configured
\* threshold in the order Debug < Info < Warn < Error; a call below the
\* threshold changes neither a channel nor the backend's output.
C1_LevelGate ==
    [][\A p \in Producers :
          (pc[p] = "locked" /\ pc'[p] # "locked" /\ initialized /\ async_enabled) =>
             LET passes == /\ config # None
                           /\ LevelRank(lvl[p]) >= LevelRank(config[1].threshold)
                 handed == cur[p] \in AcceptedIds' \/ pc'[p] = "syncwrite"
             IN  /\ handed <=> passes
                 /\ ~passes => /\ chan' = chan
                               /\ out' = out
                               /\ syncWrites' = syncWrites
                               /\ pc'[p] = "idle"
      ]_vars

\* The records of returned calls that went to neither path nor to stderr:
\* the level gate stopped them.
Gated ==
    {id \in Called : /\ Returned(id)
                     /\ id \notin AcceptedIds \cup rejected
                     /\ \A e \in stderr : e.id # id}

\* C1's case: an initialized logger has stopped one record at the gate, has
\* enqueued another and has written a third synchronously.
C1_Witness ==
    /\ initialized
    /\ Gated # {}
    /\ AcceptedIds # {}
    /\ \E id \in rejected : WrittenVia(id, "sync")

\* C2: a record whose try_send failed (channel full or receiver gone) is
\* written through the producer's own backend before the call returns: while
\* the call is in progress the producer holds the guard and is about to call
\* write_log on an existing output, and once it has returned write_log has
\* been called with the record, which stands in the output unless that write
\* itself returned Err.
C2_OverflowFallback ==
    \A id \in rejected :
        \/ \E p \in Producers : /\ cur[p] = id
                                /\ pc[p] = "syncwrite"
                                /\ holder = p
                                /\ output # None
        \/ /\ Returned(id)
           /\ Count(syncWrites, id) = 1
           /\ \/ WrittenVia(id, "sync")
              \/ [id |-> id, via |-> "sync"] \in writeErr

\* C2's case: with the channel of the current sender full, a rejected
\* record has been written synchronously and its call has returned.
C2_Witness ==
    /\ async_sender # None
    /\ Len(chan[async_sender[1]]) = ChannelCapacity
    /\ \E id \in rejected : Returned(id) /\ WrittenVia(id, "sync")

\* C3: a producer that holds the guard can always take its next step
\* without a consumer step (whether the channel is empty, partly full,
\* full or closed), and a producer whose send succeeded has returned
\* without a backend write.
C3_ProducerNeverWaits ==
    \A p \in Producers :
        /\ pc[p] = "locked" => ENABLED LoggerInner_log(p)
        /\ pc[p] = "syncwrite" =>
              /\ cur[p] \notin AcceptedIds
              /\ ENABLED (LogSyncWriteOk(p) \/ LogSyncWriteErr(p))
        /\ \A id \in AcceptedIds : cur[p] # id /\ id \notin Range(syncWrites)

\* C3's case: a producer holds the guard with a record that passes the gate
\* while the channel of the current sender is full.
C3_Witness ==
    \E p \in Producers :
        /\ pc[p] = "locked"
        /\ initialized
        /\ async_sender # None
        /\ should_log(lvl[p], config[1].threshold)
        /\ try_send(async_sender[1]) = "Full"

\* C4: a record is handled by at most one delivery path and at most once:
\* a record the channel accepted is buffered, or was received once by the
\* consumer, or went with a receiver that was dropped, and the producer
\* never writes it; a rejected record is written once by the producer
\* (by the time its call has returned) and never received by a consumer; no
\* record stands in the output twice, and only by the path that took it.
C4_ExactlyOnePath ==
    \A id \in Called :
        LET a == TimesReceived(id)
            s == Count(syncWrites, id)
            buffered == Cardinality({c \in Channels : id \in Range(chan[c])})
            dropped == \E c \in Channels : id \in Range(sent[c]) /\ ~ReceiverAlive(c)
        IN  /\ a + s <= 1
            /\ TimesInOutput(id) <= 1
            /\ WrittenVia(id, "async") => a = 1
            /\ WrittenVia(id, "sync") => s = 1
            /\ id \in AcceptedIds =>
                  /\ id \notin rejected
                  /\ s = 0
                  /\ a + buffered <= 1
                  /\ a + buffered = 0 => dropped
            /\ id \in rejected =>
                  /\ a = 0
                  /\ buffered = 0
                  /\ Returned(id) => s = 1

\* C4's case: one record went through the consumer and another through the
\* producer's fallback, both are in the output.
C4_Witness ==
    \E i, j \in Called :
        /\ i \in AcceptedIds /\ WrittenVia(i, "async")
        /\ j \in rejected /\ WrittenVia(j, "sync")

\* C5: under fair scheduling of the consumer tasks every record accepted by
\* try_send is eventually in the backend's output exactly once, unless the
\* environment failed it (the consumer's backend could not be built or the
\* write of that record returned Err).
C5_AcceptedEventuallyWritten ==
    \A id \in RecordIds :
        (id \in AcceptedIds) ~> (TimesInOutput(id) = 1 \/ BackendFailed(id))

\* C5's case: with no backend failure at all, an accepted record has been
\* written by the consumer while another is still pending below capacity.
C5_Witness ==
    /\ writeErr = {}
    /\ \A c \in Channels : cons[c] # "failed"
    /\ \E i \in AcceptedIds : WrittenVia(i, "async") /\ TimesInOutput(i) = 1
    /\ \E c \in Channels : Len(chan[c]) > 0 /\ Len(chan[c]) < ChannelCapacity

\* C6: each consumer receives the records of its channel in the order
\* try_send accepted them, and the records of one channel that reach the
\* output stand there in that order.
C6_ChannelFifo ==
    \A c \in Channels :
        /\ IsPrefix(recvd[c], sent[c])
        /\ \A i, j \in DOMAIN out :
              (/\ i < j
               /\ out[i].via = "async" /\ out[j].via = "async"
               /\ out[i].id \in Range(sent[c]) /\ out[j].id \in Range(sent[c]))
              => Pos(sent[c], out[i].id) < Pos(sent[c], out[j].id)

\* C6's case: two records of one channel, enqueued while both were
\* buffered together, have been written by its consumer.
C6_Witness ==
    \E c \in Channels :
        /\ Len(recvd[c]) >= 2
        /\ WrittenVia(sent[c][1], "async")
        /\ WrittenVia(sent[c][2], "async")

\* C7: when shutdown() has returned, every record enqueued before it was
\* called is in the backend's output (unless the backend failed it).
C7_ShutdownDrains ==
    shut.pc = "returned" =>
        \A id \in shut.seen : WrittenVia(id, "async") \/ BackendFailed(id)

\* C8: a record logged after shutdown() returned is not received by a
\* consumer that existed when it returned.
C8_ShutdownStopsConsumer ==
    shut.pc = "returned" =>
        \A c \in Channels : \A id \in Range(recvd[c]) :
            ~(c <= shut.chan /\ id >= shut.mark)

\* A consumer task in its receive loop that is writing a record, or has
\* records buffered, or is still fed by the logger's send handle. (A task
\* whose channel is empty and closed is only waiting to see recv() return
\* None and is not counted.)
Alive(c) ==
    \/ cons[c] = "writing"
    \/ cons[c] = "running" /\ (chan[c] # <<>> \/ async_sender = Some(c))

\* C9: at most one consumer task is alive at any time.
C9_OneConsumer ==
    Cardinality({c \in Channels : Alive(c)}) <= 1

\* C10: a log call made on an initialized logger whose mutex is poisoned
\* takes the guard and runs LoggerInner::log (the normal dispatch path).
C10_PoisonRecovered ==
    [][(poisoned /\ initialized /\ nextId' # nextId) =>
          \E p \in Producers : pc'[p] = "locked" /\ cur'[p] = nextId]_vars

\* C11: every backend write that returned Err, on the consumer's path and
\* on the producer's synchronous path alike, has a line on stderr for its
\* record.
C11_FailuresReported ==
    \A e \in writeErr : \E l \in stderr : l.id = e.id

\* C15 as stated: once the logger is initialized its configuration has the
\* same value in every later state.
C15_ConfigFrozen ==
    [][initialized => config' = config]_vars

\* C15, amended: once the logger is initialized, its configuration changes
\* only in a step that is a call of init_with_config; no log call, consumer
\* step or shutdown step changes it.
C15_ConfigChangedOnlyByInit ==
    [][(initialized /\ config' # config) => inits' = inits + 1]_vars

\* C15's case: after a first successful init_with_config, a record has been
\* logged, the consumer has written it and shutdown() has returned, with no
\* further init call.
C15_Witness ==
    /\ initialized
    /\ inits = 1
    /\ shut.pc = "returned"
    /\ \E i \in DOMAIN out : out[i].via = "async"

\* C16: while the logger is uninitialized, a log call at any level writes
\* its line to stderr and returns; no channel, no write log and no backend
\* output changes.
C16_UninitializedToStderr ==
    [][/\ \A p \in Producers :
             (~initialized /\ pc[p] = "locked" /\ pc'[p] # "locked") =>
                /\ \E l \in stderr' \ stderr : l.id = cur[p]
                /\ pc'[p] = "idle"
                /\ <<chan, sent, rejected, syncWrites, out>>' = <<chan, sent, rejected, syncWrites, out>>
       /\ (~initialized /\ nextId' # nextId) =>
             \/ \E p \in Producers : pc'[p] = "locked" /\ cur'[p] = nextId
             \/ \E l \in stderr' \ stderr : l.id = nextId
      ]_vars

\* C16's case: on a logger that is not initialized although a failed
\* init_with_config left it a configuration and an output, a call has
\* written its line to stderr and returned.
C16_Witness ==
    /\ ~initialized
    /\ config # None
    /\ output # None
    /\ \E l \in stderr : l.kind = "uninit" /\ Returned(l.id)

\* C18: a producer is inside the synchronous write only while it holds the
\* guard, so at most one producer writes through the producer-side backend
\* at a time; a record a consumer task is writing is written by that task
\* alone, never by a producer and never by another task.
C18_BackendExclusive ==
    /\ \A p \in Producers : pc[p] # "idle" => holder = p
    /\ Cardinality({p \in Producers : pc[p] = "syncwrite"}) <= 1
    /\ \A c \in Channels : cons[c] = "writing" =>
          /\ inflight[c] \in Range(sent[c])
          /\ inflight[c] \notin Range(syncWrites)
          /\ \A p \in Producers : cur[p] # inflight[c]
          /\ \A d \in Channels \ {c} : inflight[d] # inflight[c]

\* C18's case: a producer is inside the synchronous write while a consumer
\* task is writing another record and the other producer waits outside.
C18_Witness ==
    /\ \E p \in Producers : pc[p] = "syncwrite"
    /\ \E c \in Channels : cons[c] = "writing"

(***************************************************************************)
(* outputs.rs: FileOutput. Two instances may exist on the same path: the    *)
(* producers' one (LoggerInner::output) and the consumer task's one. Each   *)
(* call into the file system is one step, so that the steps of the two      *)
(* instances interleave as the calls of their two threads do. Either        *)
(* instance may be the only one: an instance that was constructed earlier   *)
(* and is not used again has left its mark in the folder the model starts   *)
(* from.                                                                    *)
(***************************************************************************)
\* 1024 * 1024, the bytes of a megabyte (outputs.rs:149).
BytesPerMb == 1048576

\* FileOutput::max_file_size_bytes.
max_file_size_bytes == max_file_size_mb * BytesPerMb

\* The lengths of the log lines written: halves of a megabyte.
LineUnit == BytesPerMb \div 2
LineLens == {k * LineUnit : k \in 1..MaxLineHalves}

\* The log folder at start: a file "app.log.bak", the log file or not, with
\* 0, 1/2 or 1 MB in it, and any of the backups 1 and 2.
FileInit ==
    /\ max_file_size_mb \in 0..MaxFileSizeMb
    /\ \E present \in SUBSET {file_path, new_path(1), new_path(2)}, halves \in 0..2 :
          /\ (file_path \notin present) => halves = 0
          /\ dir = [n \in Names |->
                      CASE n = <<file_stem, extension, "bak">> -> 1
                        [] n = file_path /\ n \in present -> 2
                        [] n = new_path(1) /\ n \in present -> 3
                        [] n = new_path(2) /\ n \in present -> 4
                        [] OTHER -> 0]
          /\ fsize = <<LineUnit, halves * LineUnit, LineUnit, LineUnit>>
    /\ fo = [w \in Writers |-> NoFileOutput]
    /\ rotated = <<>>
    /\ nwrites = 0

\* The handle a writer's code is using: the consumer's write_log_async and
\* setup_async_file use async_file, everything else current_file.
UsesAsync(w) == w = "consumer" /\ fo[w].ret # "new"
Handle(w) == IF UsesAsync(w) THEN fo[w].async_file ELSE fo[w].current_file

\* The instance after a call has returned.
Returns(r) == [r EXCEPT !.pc = "idle", !.max_index = 0, !.len = 0, !.after = "none", !.ret = "none"]

\* The instance after `?` returned an Err: a failed FileOutput::new leaves
\* no instance, a failed write leaves the instance as it is.
Failed(r) == IF r.ret = "new" THEN NoFileOutput ELSE Returns(r)

\* FileOutput::new (137-166) up to its call of open_or_rotate.
FileOutput_new(w) ==
    /\ fo[w].pc = "none"
    /\ fo' = [fo EXCEPT ![w] = [NoFileOutput EXCEPT !.pc = "stat", !.ret = "new"]]
    /\ UNCHANGED <<dir, fsize, max_file_size_mb, rotated, nwrites>>
    /\ UNCHANGED <<dispatchVars, levelVars, backendVars, macroVars>>

\* A rotation decision that rotates only a file above the threshold.
StatAbove(w) ==
    /\ fo[w].pc = "stat"
    /\ LET f == dir[file_path]
           file_exists == f # 0
           current_size == IF file_exists THEN fsize[f] ELSE 0
       IN IF file_exists /\ current_size > max_file_size_bytes
          THEN fo' = [fo EXCEPT ![w].pc = "scan", ![w].after = "open"]
          ELSE fo' = [fo EXCEPT ![w].pc = "open", ![w].current_size = current_size]
    /\ UNCHANGED <<dir, fsize, max_file_size_mb, rotated, nwrites>>
    /\ UNCHANGED <<dispatchVars, levelVars, backendVars, macroVars>>

\* open_or_rotate (170-184), setup_async_file (244-260): exists(), the
\* file's length, and the decision to rotate.
Stat(w) ==
    /\ fo[w].pc = "stat"
    /\ LET f == dir[file_path]
           file_exists == f # 0
           current_size == IF file_exists THEN fsize[f] ELSE 0
       IN IF file_exists /\ current_size >= max_file_size_bytes
          THEN fo' = [fo EXCEPT ![w].pc = "scan", ![w].after = "open"]
          ELSE fo' = [fo EXCEPT ![w].pc = "open", ![w].current_size = current_size]
    /\ UNCHANGED <<dir, fsize, max_file_size_mb, rotated, nwrites>>
    /\ UNCHANGED <<dispatchVars, levelVars, backendVars, macroVars>>

\* rotate_logs (220-224): the number read from a directory entry's name:
\* the name is file_stem.extension.index_str and index_str parses as u32.
BackupIndex(name) ==
    IF Len(name) = 3 /\ SubSeq(name, 1, 2) = file_path
    THEN ParseU32(name[3])
    ELSE None

Max(S) == CHOOSE x \in S : \A y \in S : y <= x

\* The directory entries the scan reads a number from.
Numbered == {n \in Names : dir[n] # 0 /\ BackupIndex(n) # None}

\* A scan that counts the backups.
ScanCount == Cardinality(Numbered)

\* rotate_logs (215-231): max_index after the loop over read_dir.
ScanMax == Max({0} \cup {BackupIndex(n)[1] : n \in Numbered})

\* rotate_logs, first half: the scan of the log folder.
Scan(w) ==
    /\ fo[w].pc = "scan"
    /\ fo' = [fo EXCEPT ![w].pc = "rename", ![w].max_index = ScanMax]
    /\ UNCHANGED <<dir, fsize, max_file_size_mb, rotated, nwrites>>
    /\ UNCHANGED <<dispatchVars, levelVars, backendVars, macroVars>>

\* rotate_logs, second half (234-236): fs::rename of the log file to the
\* backup name; it replaces a file of that name and fails if the log file
\* does not exist.
Rename(w) ==
    /\ fo[w].pc = "rename"
    /\ fo[w].max_index + 1 <= MaxIndex
    /\ IF dir[file_path] = 0
       THEN /\ fo' = [fo EXCEPT ![w] = Failed(fo[w])]
            /\ UNCHANGED <<dir, rotated>>
       ELSE /\ dir' = [dir EXCEPT ![new_path(fo[w].max_index + 1)] = dir[file_path],
                                  ![file_path] = 0]
            /\ rotated' = Append(rotated, fo[w].max_index + 1)
            /\ fo' = [fo EXCEPT ![w].pc = IF fo[w].after = "open" THEN "open" ELSE "stat",
                                ![w].current_size = IF fo[w].after = "open" THEN 0 ELSE @]
    /\ UNCHANGED <<fsize, max_file_size_mb, nwrites>>
    /\ UNCHANGED <<dispatchVars, levelVars, backendVars, macroVars>>

\* open_or_rotate (194-200), setup_async_file (271-278): open the log file
\* for append, creating it if it does not exist.
Open(w) ==
    /\ fo[w].pc = "open"
    /\ LET created == dir[file_path] = 0
           f == IF created THEN Len(fsize) + 1 ELSE dir[file_path]
           opened == IF UsesAsync(w)
                     THEN [fo[w] EXCEPT !.async_file = Some(f)]
                     ELSE [fo[w] EXCEPT !.current_file = Some(f)]
       IN /\ dir' = [dir EXCEPT ![file_path] = f]
          /\ fsize' = IF created THEN Append(fsize, 0) ELSE fsize
          /\ fo' = [fo EXCEPT ![w] =
                       CASE fo[w].ret = "new" -> Returns(opened)
                         [] fo[w].ret = "begin" -> [opened EXCEPT !.pc = "check"]
                         [] fo[w].ret = "write" -> [opened EXCEPT !.pc = "write"]]
    /\ UNCHANGED <<max_file_size_mb, rotated, nwrites>>
    /\ UNCHANGED <<dispatchVars, levelVars, backendVars, macroVars>>

\* write_log (295-308), write_log_async (357-369): a call with a line of n
\* bytes; the file is opened first if the instance holds no handle.
WriteBegin(w, n) ==
    /\ fo[w].pc = "idle"
    /\ nwrites < MaxWrites
    /\ nwrites' = nwrites + 1
    /\ fo' = [fo EXCEPT ![w].len = n, ![w].ret = "begin",
                        ![w].pc = IF (IF w = "consumer" THEN fo[w].async_file ELSE fo[w].current_file) = None
                                  THEN "stat" ELSE "check"]
    /\ UNCHANGED <<dir, fsize, max_file_size_mb, rotated>>
    /\ UNCHANGED <<dispatchVars, levelVars, backendVars, macroVars>>

\* A rotation test that looks at the size already written only.
need_rotation_late(w) == fo[w].current_size > max_file_size_bytes

\* write_log (311-317), write_log_async (372).
need_rotation(w) == fo[w].current_size + fo[w].len > max_file_size_bytes

\* write_log (320-325), write_log_async (372-381): the rotation test; a
\* rotation drops the handle, runs rotate_logs and reopens the file.
Check(w) ==
    /\ fo[w].pc = "check"
    /\ IF need_rotation(w)
       THEN fo' = [fo EXCEPT ![w].pc = "scan", ![w].after = "stat", ![w].ret = "write",
                             ![w].current_file = IF w = "producer" THEN None ELSE @,
                             ![w].async_file = IF w = "consumer" THEN None ELSE @]
       ELSE fo' = [fo EXCEPT ![w].pc = "write", ![w].ret = "write"]
    /\ UNCHANGED <<dir, fsize, max_file_size_mb, rotated, nwrites>>
    /\ UNCHANGED <<dispatchVars, levelVars, backendVars, macroVars>>

\* write_log (328-340), write_log_async (384-396): append the line through
\* the handle, add its length to current_size, return Ok.
Write(w) ==
    /\ fo[w].pc = "write"
    /\ LET h == Handle(w)[1]
       IN /\ fsize' = [fsize EXCEPT ![h] = @ + fo[w].len]
          /\ fo' = [fo EXCEPT ![w] = Returns([fo[w] EXCEPT !.current_size = @ + fo[w].len])]
    /\ UNCHANGED <<dir, max_file_size_mb, rotated, nwrites>>
    /\ UNCHANGED <<dispatchVars, levelVars, backendVars, macroVars>>

NextFile ==
    \/ \E w \in Writers : FileOutput_new(w)
    \/ \E w \in Writers : Stat(w)
    \/ \E w \in Writers : Scan(w)
    \/ \E w \in Writers : Rename(w)
    \/ \E w \in Writers : Open(w)
    \/ \E w \in Writers, n \in LineLens : WriteBegin(w, n)
    \/ \E w \in Writers : Check(w)
    \/ \E w \in Writers : Write(w)

InitFile ==
    /\ NoMacroCall
    /\ NoBackendCall
    /\ LoggerNew
    /\ FileInit
    /\ NoLevelCall

SpecFile == InitFile /\ [][NextFile]_vars

\* Writer w's FileOutput is the only one on the path.
SoleWriter(w) == \A v \in Writers \ {w} : fo[v].pc = "none"

\* The backup numbers N for which a file file_stem.extension.N exists.
BackupNumbers == {n \in 1..MaxIndex : dir[new_path(n)] # 0}

\* C12 as stated: with a single writer, every write goes to the log file; a
\* line that would take the file past max_file_size_bytes is not appended to
\* it but written to the file opened after the rotation; and after every
\* write the log file's size is at most max_file_size_bytes.
C12_NeverPastThreshold ==
    [][\A w \in Writers :
          (SoleWriter(w) /\ fo[w].pc = "write" /\ fo'[w].pc = "idle") =>
             LET h == Handle(w)[1]
             IN /\ h = dir[file_path]
                /\ fsize[h] + fo[w].len <= max_file_size_bytes \/ fsize[h] = 0
                /\ fsize'[h] = fsize[h] + fo[w].len
                /\ fsize'[dir'[file_path]] <= max_file_size_bytes
      ]_vars

\* C12, amended: with a single writer, every write goes to the log file; a
\* line that would take the file past max_file_size_bytes is not appended to
\* it but written to the empty file opened after the rotation; after every
\* write the log file's size is at most max_file_size_bytes, or the file
\* holds that one line alone, which is longer than max_file_size_bytes.
C12_PastThresholdByOneLineOnly ==
    [][\A w \in Writers :
          (SoleWriter(w) /\ fo[w].pc = "write" /\ fo'[w].pc = "idle") =>
             LET h == Handle(w)[1]
             IN /\ h = dir[file_path]
                /\ fsize[h] + fo[w].len <= max_file_size_bytes \/ fsize[h] = 0
                /\ fsize'[h] = fsize[h] + fo[w].len
                /\ \/ fsize'[dir'[file_path]] <= max_file_size_bytes
                   \/ /\ fsize'[dir'[file_path]] = fo[w].len
                      /\ fo[w].len > max_file_size_bytes
      ]_vars

\* C12's case: a single writer created the log file, wrote to it, and a
\* later write rotated it and wrote its line to the next file, which is
\* within the limit.
C12_Witness ==
    \E w \in Writers :
       /\ SoleWriter(w)
       /\ fo[w].pc = "idle"
       /\ nwrites = MaxWrites
       /\ Len(rotated) = 1
       /\ dir[new_path(rotated[1])] > 4
       /\ fsize[dir[new_path(rotated[1])]] > 0
       /\ dir[file_path] # 0
       /\ fsize[dir[file_path]] > 0
       /\ fsize[dir[file_path]] <= max_file_size_bytes

\* C13: no step removes or replaces an existing backup, and the backup
\* numbers of successive rotations are strictly increasing.
C13_BackupsKept ==
    [][/\ \A n \in 1..MaxIndex :
             dir[new_path(n)] # 0 => dir'[new_path(n)] = dir[new_path(n)]
       /\ \A i, j \in DOMAIN rotated' : i < j => rotated'[i] < rotated'[j]
      ]_vars

\* C14: the scan of rotate_logs ends with max_index the largest N for which
\* file_stem.extension.N exists (0 if there is none), and the rename moves
\* the log file to file_stem.extension.(max_index + 1) and changes no other
\* directory entry.
C14_RotateToNextNumber ==
    [][\A w \in Writers :
          /\ (fo[w].pc = "scan" /\ fo'[w].pc = "rename") =>
                LET N == fo'[w].max_index
                IN \/ N = 0 /\ BackupNumbers = {}
                   \/ N \in BackupNumbers /\ \A n \in BackupNumbers : n <= N
          /\ (fo[w].pc = "rename" /\ fo'[w].pc # "rename" /\ rotated' # rotated) =>
                LET target == new_path(fo[w].max_index + 1)
                IN /\ rotated' = Append(rotated, fo[w].max_index + 1)
                   /\ dir'[target] = dir[file_path]
                   /\ dir'[file_path] = 0
                   /\ \A n \in Names \ {target, file_path} : dir'[n] = dir[n]
      ]_vars

\* C14's case: app.log.1 and app.log.2 existed, and the one rotation done
\* moved the log file to app.log.3.
C14_Witness ==
    /\ dir[new_path(1)] = 3
    /\ dir[new_path(2)] = 4
    /\ rotated = <<3>>
    /\ dir[new_path(3)] = 2

(***************************************************************************)
(* The scenario of one producer logging at three levels (logger.rs:139-183, *)
(* 187-203): the logger has been initialized with threshold Warn, its       *)
(* consumer task has been spawned, and the producer calls debug("x"),       *)
(* warn("y"), error("z"): the records 1, 2 and 3. Records logged before     *)
(* the scenario may still be buffered in the channel; they are written 0.   *)
(***************************************************************************)
ScenarioLevels == <<"Debug", "Warn", "Error">>

InitScenario ==
    /\ NoMacroCall
    /\ NoBackendCall
    /\ initialized = TRUE
    /\ config = Some([threshold |-> "Warn"])
    /\ output = Some(1)
    /\ async_sender = Some(1)
    /\ async_enabled = TRUE
    /\ poisoned = FALSE
    /\ holder = 0
    /\ runtime = TRUE
    /\ \E k \in 0..(ChannelCapacity - 1) :
          /\ chan = [c \in Channels |-> IF c = 1 THEN [i \in 1..k |-> 0] ELSE <<>>]
          /\ sent = [c \in Channels |-> IF c = 1 THEN [i \in 1..k |-> 0] ELSE <<>>]
    /\ cons = [c \in Channels |-> IF c = 1 THEN "spawned" ELSE "none"]
    /\ inflight = [c \in Channels |-> 0]
    /\ pc = [p \in Producers |-> "idle"]
    /\ cur = [p \in Producers |-> 0]
    /\ inits = 1
    /\ nextId = 1
    /\ lvl = [p \in Producers |-> "none"]
    /\ shut = [pc |-> "idle", seen |-> {}, mark |-> 0, chan |-> 0]
    /\ recvd = [c \in Channels |-> <<>>]
    /\ rejected = {}
    /\ syncWrites = <<>>
    /\ out = <<>>
    /\ writeErr = {}
    /\ stderr = {}
    /\ NoFiles
    /\ NoLevelCall

\* The producer's next call of the scenario.
ScenarioLog ==
    /\ nextId \in DOMAIN ScenarioLevels
    /\ LogLock(1, ScenarioLevels[nextId])

NextScenario ==
    \/ ScenarioLog
    \/ LoggerInner_log(1)
    \/ LogSyncWriteOk(1)
    \/ LogSyncWriteErr(1)
    \/ ConsumerStart(1)
    \/ ConsumerStartErr(1)
    \/ ConsumerRecv(1)
    \/ ConsumerWriteOk(1)
    \/ ConsumerWriteErr(1)

SpecScenario == InitScenario /\ [][NextScenario]_vars

\* The records of the output, in order.
OutIds == [i \in DOMAIN out |-> out[i].id]
InOut(id) == \E i \in DOMAIN out : out[i].id = id

\* The backend failed record id, on either path.
Lost(id) == BackendFailed(id) \/ [id |-> id, via |-> "sync"] \in writeErr

\* The three calls have returned and nothing is buffered or being written.
Settled ==
    /\ nextId > Len(ScenarioLevels)
    /\ \A p \in Producers : pc[p] = "idle"
    /\ chan[1] = <<>>
    /\ cons[1] # "writing"

LowerCase == <<"a", "b", "c", "d", "e", "f", "g", "h", "i", "j", "k", "l", "m",
               "n", "o", "p", "q", "r", "s", "t", "u", "v", "w", "x", "y", "z">>
UpperCase == <<"A", "B", "C", "D", "E", "F", "G", "H", "I", "J", "K", "L", "M",
               "N", "O", "P", "Q", "R", "S", "T", "U", "V", "W", "X", "Y", "Z">>

\* char::to_lowercase on the characters of the model.
to_lowercase_char(ch) ==
    IF \E i \in DOMAIN UpperCase : UpperCase[i] = ch
    THEN LowerCase[CHOOSE i \in DOMAIN UpperCase : UpperCase[i] = ch]
    ELSE ch

\* A lowering that leaves the text as it is.
to_lowercase_noop(t) == t

\* str::to_lowercase.
to_lowercase(t) == [i \in DOMAIN t |-> to_lowercase_char(t[i])]

\* LogLevel::as_str.
as_str(self) ==
    CASE self = "Debug" -> <<"D", "E", "B", "U", "G">>
      [] self = "Info"  -> <<"I", "N", "F", "O">>
      [] self = "Warn"  -> <<"W", "A", "R", "N">>
      [] self = "Error" -> <<"E", "R", "R", "O", "R">>

\* LogLevel::from_str.
from_str(t) ==
    LET l == to_lowercase(t)
    IN CASE l = <<"d", "e", "b", "u", "g">> -> "Debug"
         [] l = <<"i", "n", "f", "o">>      -> "Info"
         [] l = <<"w", "a", "r", "n">>      -> "Warn"
         [] l = <<"e", "r", "r", "o", "r">> -> "Error"
         [] OTHER                           -> "Info"

\* The spellings of a text with any of its letters in upper case.
Spellings(t) ==
    {[i \in DOMAIN t |-> IF i \in U THEN UpperCase[CHOOSE k \in DOMAIN LowerCase : LowerCase[k] = t[i]]
                                    ELSE t[i]] : U \in SUBSET DOMAIN t}

\* The texts from_str is called with: the four names in every spelling, and
\* texts that are no level name.
LevelTexts ==
    UNION {Spellings(n) : n \in {<<"d", "e", "b", "u", "g">>, <<"i", "n", "f", "o">>,
                                  <<"w", "a", "r", "n">>, <<"e", "r", "r", "o", "r">>}}
    \cup {<<>>, <<"w", "a", "r", "n", "i", "n", "g">>, <<"t", "r", "a", "c", "e">>,
          <<" ", "i", "n", "f", "o">>, <<"e", "r", "r">>, <<"3">>}

InitLevel ==
    /\ NoMacroCall
    /\ NoBackendCall
    /\ LoggerNew
    /\ NoFiles
    /\ larg \in [self : LogLevel, threshold : LogLevel, text : LevelTexts]
    /\ lres = [logged |-> None, parsed |-> None, name |-> None]

\* self.should_log(&threshold)
CallShouldLog ==
    /\ lres.logged = None
    /\ lres' = [lres EXCEPT !.logged = Some(should_log(larg.self, larg.threshold))]
    /\ UNCHANGED <<larg, dispatchVars, fileVars, backendVars, macroVars>>

\* LogLevel::from_str(text)
CallFromStr ==
    /\ lres.parsed = None
    /\ lres' = [lres EXCEPT !.parsed = Some(from_str(larg.text))]
    /\ UNCHANGED <<larg, dispatchVars, fileVars, backendVars, macroVars>>

\* self.as_str()
CallAsStr ==
    /\ lres.name = None
    /\ lres' = [lres EXCEPT !.name = Some(as_str(larg.self))]
    /\ UNCHANGED <<larg, dispatchVars, fileVars, backendVars, macroVars>>

NextLevel == CallShouldLog \/ CallFromStr \/ CallAsStr

SpecLevel == InitLevel /\ [][NextLevel]_vars

\* C19: for all sixteen pairs, should_log(L, T) is TRUE exactly if L is at
\* or above T in the order Debug < Info < Warn < Error.
C19_ShouldLogIsAtLeast ==
    lres.logged # None =>
        (lres.logged[1] <=> LevelRank(larg.self) >= LevelRank(larg.threshold))

\* C19's case: should_log(Error, Error) has been evaluated and is TRUE.
C19_Witness ==
    /\ larg.self = "Error"
    /\ larg.threshold = "Error"
    /\ lres.logged = Some(TRUE)

(***************************************************************************)
(* LoggerInner::log (logger.rs:122-183) as a function of the LoggerInner it *)
(* is called on: every combination of the five fields, with one producer    *)
(* holding the guard for a call at any level. Logger::init_with_config      *)
(* produces only some of these values (initialized and async_enabled are    *)
(* set together, logger.rs:116-117, and LogConfig has no field that turns   *)
(* asynchronous delivery off); the others are the ones the branches at      *)
(* lines 127 and 169 are written for.                                       *)
(***************************************************************************)
InitInner ==
    /\ NoMacroCall
    /\ NoBackendCall
    /\ initialized \in BOOLEAN
    /\ async_enabled \in BOOLEAN
    /\ config \in {None} \cup {Some(c) : c \in LogConfig}
    /\ output \in {None, Some(1)}
    /\ async_sender \in {None, Some(1)}
    /\ poisoned = FALSE
    /\ holder = 1
    /\ runtime = (async_sender # None)
    /\ chan = [c \in Channels |-> <<>>]
    /\ cons = [c \in Channels |-> IF c = 1 /\ async_sender # None THEN "running" ELSE "none"]
    /\ inflight = [c \in Channels |-> 0]
    /\ pc = [p \in Producers |-> IF p = 1 THEN "locked" ELSE "idle"]
    /\ cur = [p \in Producers |-> IF p = 1 THEN 1 ELSE 0]
    /\ inits = 1
    /\ nextId = 2
    /\ lvl \in {[p \in Producers |-> IF p = 1 THEN l ELSE "none"] : l \in LogLevel}
    /\ shut = [pc |-> "idle", seen |-> {}, mark |-> 0, chan |-> 0]
    /\ sent = [c \in Channels |-> <<>>]
    /\ recvd = [c \in Channels |-> <<>>]
    /\ rejected = {}
    /\ syncWrites = <<>>
    /\ out = <<>>
    /\ writeErr = {}
    /\ stderr = {}
    /\ NoFiles
    /\ NoLevelCall

NextInner ==
    \/ LoggerInner_log(1)
    \/ LogSyncWriteOk(1)
    \/ LogSyncWriteErr(1)

SpecInner == InitInner /\ [][NextInner]_vars

LetterIndex(ch) ==
    IF \E i \in DOMAIN LowerCase : LowerCase[i] = ch \/ UpperCase[i] = ch
    THEN CHOOSE i \in DOMAIN LowerCase : LowerCase[i] = ch \/ UpperCase[i] = ch
    ELSE 0

\* Two texts are the same up to the case of their letters.
SameIgnoringCase(t, u) ==
    /\ Len(t) = Len(u)
    /\ \A i \in DOMAIN t :
          \/ t[i] = u[i]
          \/ LetterIndex(t[i]) # 0 /\ LetterIndex(t[i]) = LetterIndex(u[i])

\* C22: from_str returns a level for every text: the level L if the text is
\* as_str(L) in lower, upper or mixed case, and Info for every other text.
C22_FromStrInvertsAsStr ==
    lres.parsed # None =>
        /\ lres.parsed[1] \in LogLevel
        /\ \A l \in LogLevel :
              SameIgnoringCase(larg.text, as_str(l)) => lres.parsed[1] = l
        /\ (\A l \in LogLevel : ~SameIgnoringCase(larg.text, as_str(l)))
              => lres.parsed[1] = "Info"

\* C22's case: from_str("WaRn") has returned Warn.
C22_Witness ==
    /\ larg.text = <<"W", "a", "R", "n">>
    /\ lres.parsed = Some("Warn")

\* C24: a call of init_with_config that returns Err (no consumer task is
\* spawned, no panic) leaves initialized, config, output, the send handle
\* and async_enabled as they were.
C24_FailedInitChangesNothing ==
    [][(inits' # inits /\ cons' = cons /\ poisoned' = poisoned) =>
          loggerVars' = loggerVars]_vars

\* A channel whose send handle a later successful init_with_config dropped.
Replaced(c) ==
    /\ cons[c] # "none"
    /\ \E d \in Channels : d > c /\ cons[d] # "none"

\* C25: once a later init_with_config has returned Ok, no record is sent to
\* the previous channel any more; what that channel still buffers is
\* written by its consumer (unless the backend fails the record); and that
\* consumer ends, not before its channel is empty.
C25_OldChannelDrainedThenClosed ==
    /\ [][\A c \in Channels : Replaced(c) => sent'[c] = sent[c]]_vars
    /\ [](\A c \in Channels : cons[c] = "done" => (Replaced(c) /\ chan[c] = <<>>))
    /\ \A c \in Channels : \A id \in RecordIds :
          (Replaced(c) /\ id \in Range(chan[c]))
             ~> (WrittenVia(id, "async") \/ BackendFailed(id))
    /\ \A c \in Channels : Replaced(c) ~> (cons[c] \in {"done", "failed"})

\* C25's case: the first channel was replaced while it held a record; its
\* consumer has written that record and has ended, and a record logged
\* after the re-initialization went through the second channel.
C25_Witness ==
    /\ Replaced(1)
    /\ cons[1] = "done"
    /\ \E id \in Range(sent[1]) : WrittenVia(id, "async")
    /\ \E id \in Range(sent[2]) : WrittenVia(id, "async")

\* C26: an initialized logger holds a configuration, an output and a send
\* handle and has async_enabled set; a call on it never writes the stderr
\* line of the uninitialized branch, and goes on to the synchronous write
\* only for a record the channel refused.
C26_InitializedIsComplete ==
    /\ [](initialized =>
            (config # None /\ output # None /\ async_sender # None /\ async_enabled))
    /\ [][\A p \in Producers :
            (initialized /\ pc[p] = "locked" /\ pc'[p] # "locked") =>
               /\ stderr' = stderr
               /\ pc'[p] = "syncwrite" => cur[p] \in rejected'
         ]_vars

\* C26's case: on a logger that was initialized and whose re-initialization
\* then failed, a record has been enqueued and written and another refused
\* and written synchronously.
C26_Witness ==
    /\ initialized
    /\ inits = 2
    /\ cons[2] = "none"
    /\ \E id \in RecordIds : WrittenVia(id, "async")
    /\ \E id \in rejected : WrittenVia(id, "sync")

\* C27: no step of shutdown() changes the logger, the mutex, the channels,
\* the consumer tasks or any call in progress; a shutdown that sleeps can
\* always return; and after it has returned a producer can enter a log call
\* whenever the mutex is free, as before.
C27_ShutdownIsFrame ==
    /\ [][shut' # shut =>
            <<loggerVars, mutexVars, taskVars, callVars, seenVars>>'
               = <<loggerVars, mutexVars, taskVars, callVars, seenVars>>]_vars
    /\ [](shut.pc = "sleeping" => ENABLED ShutdownReturn)
    /\ [](shut.pc = "returned" =>
            \A p \in Producers :
               (CanLog(p) /\ ~poisoned) => ENABLED LogLock(p, "Info"))

\* C27's case: shutdown() has returned on an initialized logger, and a
\* record logged after the return has been enqueued and written by the
\* consumer.
C27_Witness ==
    /\ shut.pc = "returned"
    /\ initialized
    /\ \E id \in RecordIds : id >= shut.mark /\ WrittenVia(id, "async")

\* C28: a write error leaves the consumer task in its loop; the records
\* are received in the order they were sent; and every record buffered in
\* the channel of a task that has had a write error is received later.
C28_WriteErrorKeepsConsumer ==
    /\ [][\A c \in Channels :
            (cons[c] = "writing" /\ cons'[c] # "writing") => cons'[c] = "running"]_vars
    /\ [](\A c \in Channels : IsPrefix(recvd[c], sent[c]))
    /\ \A c \in Channels : \A e \in RecordIds : \A id \in RecordIds :
          (/\ [id |-> e, via |-> "async"] \in writeErr
           /\ e \in Range(recvd[c])
           /\ id \in Range(chan[c]))
             ~> (id \in Range(recvd[c]))

\* C28's case: the write of a record failed in the consumer, and a record
\* sent later on the same channel has been written by it.
C28_Witness ==
    \E c \in Channels : \E i, j \in DOMAIN sent[c] :
       /\ i < j
       /\ [id |-> sent[c][i], via |-> "async"] \in writeErr
       /\ WrittenVia(sent[c][j], "async")

\* C29: after every write of a FileOutput, alone or next to the other
\* instance, the log file exists, the instance's current_size is the log
\* file's length, and the log file is not longer than max_file_size_bytes
\* (a line longer than the limit by itself, the case of C12, set aside).
C29_CurrentSizeIsFileSize ==
    [][\A w \in Writers :
          (fo[w].pc = "write" /\ fo'[w].pc = "idle") =>
             /\ dir'[file_path] # 0
             /\ fo'[w].current_size = fsize'[dir'[file_path]]
             /\ \/ fsize'[dir'[file_path]] <= max_file_size_bytes
                \/ fo[w].len > max_file_size_bytes
      ]_vars

\* C30: no step changes the length of a file that a rotation has renamed
\* to a numbered backup.
C30_BackupsNotAppended ==
    [][\A f \in DOMAIN fsize :
          (\E n \in 1..MaxIndex : dir[new_path(n)] = f) => fsize'[f] = fsize[f]
      ]_vars

(***************************************************************************)
(* outputs.rs: what the backends write for one record                      *)
(*                                                                         *)
(* A text is a sequence of pieces; timestamp, file, module, message and    *)
(* context are one piece each, the level's name is its letters, the        *)
(* punctuation of the format strings is spelled out.                       *)
(***************************************************************************)
\* The records handed to a backend: the arguments of write_log and
\* write_log_async.
Records ==
    [timestamp : {"T1"}, level : LogLevel, message : {"m1", "m2"}, file : {"main.rs"},
     line : {1, 2}, module : {"app"}, context : {None, Some("c1"), Some("")}]

\* ConsoleOutput::write_log: the line, then writeln!'s line feed.
ConsoleOutput_write_log(r) ==
    LET log_line ==
            IF r.context # None
            THEN <<r.timestamp, " [">> \o as_str(r.level) \o
                 <<"] [", r.file, ":", to_string(r.line), "] [", r.module, "] ",
                   r.message, " | Context: ", r.context[1]>>
            ELSE <<r.timestamp, " [">> \o as_str(r.level) \o
                 <<"] [", r.file, ":", to_string(r.line), "] [", r.module, "] ",
                   r.message>>
    IN  log_line \o <<"\n">>

\* ConsoleOutput::write_log_async without the context arm's suffix.
ConsoleOutput_write_log_async_bare(r) ==
    LET log_line ==
            <<r.timestamp, " [">> \o as_str(r.level) \o
            <<"] [", r.file, ":", to_string(r.line), "] [", r.module, "] ", r.message>>
        log_bytes == log_line \o <<"\n">>
    IN  log_bytes

\* ConsoleOutput::write_log_async: the line's bytes with b'\n' pushed.
ConsoleOutput_write_log_async(r) ==
    LET log_line ==
            IF r.context # None
            THEN <<r.timestamp, " [">> \o as_str(r.level) \o
                 <<"] [", r.file, ":", to_string(r.line), "] [", r.module, "] ",
                   r.message, " | Context: ", r.context[1]>>
            ELSE <<r.timestamp, " [">> \o as_str(r.level) \o
                 <<"] [", r.file, ":", to_string(r.line), "] [", r.module, "] ",
                   r.message>>
        log_bytes == log_line \o <<"\n">>
    IN  log_bytes

\* FileOutput::write_log: log_line, the line feed being part of the format.
FileOutput_log_line(r) ==
    IF r.context # None
    THEN <<r.timestamp, " [">> \o as_str(r.level) \o
         <<"] [", r.file, ":", to_string(r.line), "] [", r.module, "] ",
           r.message, " | Context: ", r.context[1], "\n">>
    ELSE <<r.timestamp, " [">> \o as_str(r.level) \o
         <<"] [", r.file, ":", to_string(r.line), "] [", r.module, "] ",
           r.message, "\n">>

\* FileOutput::write_log_async: log_line.
FileOutput_log_line_async(r) ==
    IF r.context # None
    THEN <<r.timestamp, " [">> \o as_str(r.level) \o
         <<"] [", r.file, ":", to_string(r.line), "] [", r.module, "] ",
           r.message, " | Context: ", r.context[1], "\n">>
    ELSE <<r.timestamp, " [">> \o as_str(r.level) \o
         <<"] [", r.file, ":", to_string(r.line), "] [", r.module, "] ",
           r.message, "\n">>

\* The write function s has run for rec; its write succeeded.
Emit(s, text) ==
    /\ emitted[s] = None
    /\ emitted' = [emitted EXCEPT ![s] = Some(text)]
    /\ UNCHANGED <<rec, posts, hres, dispatchVars, fileVars, levelVars, macroVars>>

ConsoleWriteLog == Emit("console", ConsoleOutput_write_log(rec))

ConsoleWriteLogAsync == Emit("console_async", ConsoleOutput_write_log_async(rec))

FileWriteLog == Emit("file", FileOutput_log_line(rec))

FileWriteLogAsync == Emit("file_async", FileOutput_log_line_async(rec))

(***************************************************************************)
(* outputs.rs: HttpOutput                                                  *)
(***************************************************************************)
\* Write calls made on the HttpOutput in one behaviour.
MaxPosts == 2

\* LogPayload as serde_json serializes it: `context` is skipped when None.
LogPayload(r) ==
    IF r.context # None
    THEN [timestamp |-> r.timestamp, level |-> as_str(r.level), message |-> r.message,
          file |-> r.file, line |-> r.line, module |-> r.module, context |-> r.context[1]]
    ELSE [timestamp |-> r.timestamp, level |-> as_str(r.level), message |-> r.message,
          file |-> r.file, line |-> r.line, module |-> r.module]

\* What send() can return: Ok(response) with a status code, or Err(e) when
\* the request did not complete (no connection, the client's timeout).
Statuses == {200, 299, 300, 404}
SendResults ==
    [response : {Some(c) : c \in Statuses}, error : {None}]
    \cup [response : {None}, error : {Some("connect"), Some("timeout")}]

\* StatusCode::is_success: 200..=299.
is_success(status) == 200 <= status /\ status < 300

\* The match on send()'s result and the status test: the call's return value.
HttpReturn(res) ==
    IF res.error # None THEN "Err: Failed to send HTTP log"
    ELSE IF ~is_success(res.response[1]) THEN "Err: HTTP log failed with status"
    ELSE "Ok"

\* HttpOutput::write_log: one post(..).json(..).send() on the blocking client.
HttpWriteLog(res) ==
    /\ Len(hres) < MaxPosts
    /\ posts' = Append(posts, LogPayload(rec))
    /\ hres' = Append(hres, [via |-> "blocking", send |-> res, ret |-> HttpReturn(res)])
    /\ UNCHANGED <<rec, emitted, dispatchVars, fileVars, levelVars, macroVars>>

\* HttpOutput::write_log_async with a second send() after a failed one.
HttpWriteLogAsyncRetry(res) ==
    /\ Len(hres) < MaxPosts
    /\ posts' = IF HttpReturn(res) = "Ok"
                THEN Append(posts, LogPayload(rec))
                ELSE Append(Append(posts, LogPayload(rec)), LogPayload(rec))
    /\ hres' = Append(hres, [via |-> "async", send |-> res, ret |-> HttpReturn(res)])
    /\ UNCHANGED <<rec, emitted, dispatchVars, fileVars, levelVars, macroVars>>

\* HttpOutput::write_log_async: one post(..).json(..).send().await on the
\* async client.
HttpWriteLogAsync(res) ==
    /\ Len(hres) < MaxPosts
    /\ posts' = Append(posts, LogPayload(rec))
    /\ hres' = Append(hres, [via |-> "async", send |-> res, ret |-> HttpReturn(res)])
    /\ UNCHANGED <<rec, emitted, dispatchVars, fileVars, levelVars, macroVars>>

\* One record, every write function of the three backends applied to it.
InitBackend ==
    /\ NoMacroCall
    /\ LoggerNew
    /\ NoFiles
    /\ NoLevelCall
    /\ rec \in Records
    /\ emitted = [s \in Sinks |-> None]
    /\ posts = <<>>
    /\ hres = <<>>

NextBackend ==
    \/ ConsoleWriteLog
    \/ ConsoleWriteLogAsync
    \/ FileWriteLog
    \/ FileWriteLogAsync
    \/ \E res \in SendResults : HttpWriteLog(res)
    \/ \E res \in SendResults : HttpWriteLogAsync(res)

SpecBackend == InitBackend /\ [][NextBackend]_vars

\* C21: every HttpOutput write call, blocking or async, sends exactly one
\* POST, whose body is the call's record, and returns Ok exactly if send()
\* gave a response whose status is in 200..299; a status outside that range
\* and a request that did not complete both return Err.  A POST is sent
\* only by a write call and the POSTs sent are one per call made: nothing
\* is kept to be sent by a later step.
C21_OnePostPerWrite ==
    /\ [](Len(posts) = Len(hres))
    /\ [][/\ posts' # posts => hres' # hres
          /\ hres' # hres =>
               LET call == hres'[Len(hres')]
                   body == posts'[Len(posts')]
               IN  /\ hres' = Append(hres, call)
                   /\ posts' = Append(posts, body)
                   /\ body.message = rec.message /\ body.level = as_str(rec.level)
                   /\ (call.ret = "Ok") <=>
                         /\ call.send.response # None
                         /\ call.send.response[1] \in 200..299
         ]_vars

\* Two calls were made, two POSTs were sent: the first call's request timed
\* out and it returned Err, the second got status 200 and returned Ok.
C21_Witness ==
    /\ Len(hres) = 2
    /\ Len(posts) = 2
    /\ hres[1].send.error = Some("timeout") /\ hres[1].ret # "Ok"
    /\ hres[2].send.response = Some(200) /\ hres[2].ret = "Ok"

\* The piece of a written text that is n pieces before its line feed.
FromEnd(text, n) == text[Len(text) - 1 - n]

\* C23: for one record, ConsoleOutput::write_log and write_log_async emit
\* the same text, FileOutput::write_log and write_log_async emit the same
\* text, and HttpOutput's two write functions send the same body.  Every
\* text ends with one line feed; before it come the message, " | Context: "
\* and the context when the record has a context, and the message with no
\* " | Context: " anywhere in the text when it has none.
C23_SameOutputBothPaths ==
    /\ (emitted["console"] # None /\ emitted["console_async"] # None)
          => emitted["console"] = emitted["console_async"]
    /\ (emitted["file"] # None /\ emitted["file_async"] # None)
          => emitted["file"] = emitted["file_async"]
    /\ \A i, j \in DOMAIN posts : posts[i] = posts[j]
    /\ \A s \in Sinks :
          emitted[s] # None =>
             LET text == emitted[s][1]
             IN  /\ text[Len(text)] = "\n"
                 /\ IF rec.context # None
                    THEN /\ FromEnd(text, 0) = rec.context[1]
                         /\ FromEnd(text, 1) = " | Context: "
                         /\ FromEnd(text, 2) = rec.message
                    ELSE /\ FromEnd(text, 0) = rec.message
                         /\ \A k \in DOMAIN text : text[k] # " | Context: "

\* A record with a context went through all four text write functions and
\* through both HttpOutput write functions.
C23_Witness ==
    /\ rec.context = Some("c1")
    /\ \A s \in Sinks : emitted[s] # None
    /\ \E i, j \in DOMAIN hres : hres[i].via = "blocking" /\ hres[j].via = "async"

\* The handle field writer w's code is using, after the step.
HandleAfter(w) == IF UsesAsync(w) THEN fo'[w].async_file ELSE fo'[w].current_file

\* C31: a write reaches its append only with an open handle; and when a
\* FileOutput that is alone on the path finishes opening the log file, its
\* handle is on the log file and current_size is that file's length: after
\* a rotation in this opening the file rotated out is a backup of at least
\* max_file_size_bytes and the log file is new and empty; without one the
\* log file either did not exist and is created empty, or existed below
\* max_file_size_bytes and is left as it was.
C31_OpenRotatesFirst ==
    /\ [](\A w \in Writers : fo[w].pc = "write" => Handle(w) # None)
    /\ [][\A w \in Writers :
             (SoleWriter(w) /\ fo[w].pc = "open" /\ fo'[w].pc # "open") =>
                LET f == dir'[file_path]
                IN  /\ HandleAfter(w) = Some(f)
                    /\ fo'[w].current_size = fsize'[f]
                    /\ IF fo[w].after = "open"
                       THEN /\ dir[file_path] = 0 /\ fsize'[f] = 0
                            /\ rotated # <<>>
                            /\ LET b == dir[new_path(rotated[Len(rotated)])]
                               IN  b # 0 /\ fsize[b] >= max_file_size_bytes
                       ELSE \/ dir[file_path] = 0 /\ fsize'[f] = 0
                            \/ /\ dir[file_path] = f /\ fsize'[f] = fsize[f]
                               /\ fsize[f] < max_file_size_bytes
         ]_vars

\* FileOutput::new on a log file of at least max_file_size_bytes, with one
\* megabyte as the limit, has returned: the file is now a backup, the log
\* file is new and empty, current_size is 0.
C31_Witness ==
    \E w \in Writers :
       /\ SoleWriter(w)
       /\ fo[w].pc = "idle" /\ nwrites = 0
       /\ max_file_size_mb = 1
       /\ Len(rotated) = 1
       /\ fsize[dir[new_path(rotated[1])]] >= max_file_size_bytes
       /\ fo[w].current_file = Some(dir[file_path])
       /\ fsize[dir[file_path]] = 0
       /\ fo[w].current_size = 0

\* C32: on a poisoned mutex init_with_config is not held up: whenever the
\* mutex is free a call can run to its Ok return, for every configuration.
\* A call made on the poisoned mutex has the outcomes of any call: it stores
\* its configuration, and either it returns Ok, having stored its own
\* output and the sender of a new channel, spawned that channel's consumer
\* and set both flags, or it returns Err and leaves sender, flags, channels
\* and runtime as they were.
C32_InitOnPoisonedMutex ==
    /\ []((poisoned /\ holder = 0 /\ inits < MaxInits) =>
             \A t \in LogLevel : ENABLED InitOk(t))
    /\ [][(poisoned /\ inits' # inits) =>
             /\ \E t \in LogLevel : config' = Some([threshold |-> t])
             /\ \/ /\ initialized' /\ async_enabled' /\ runtime'
                   /\ output' = Some(inits')
                   /\ \E c \in Channels \ Created :
                         /\ async_sender' = Some(c)
                         /\ cons' = [cons EXCEPT ![c] = "spawned"]
                \/ /\ UNCHANGED <<initialized, async_sender, async_enabled, cons, runtime>>
                   /\ output' \in {output, Some(inits')}
         ]_vars

\* The first init_with_config panicked under the guard and poisoned the
\* mutex; the second has returned Ok: the logger holds the second call's
\* output and channel, and that channel's consumer is running.
C32_Witness ==
    /\ poisoned
    /\ inits = 2
    /\ initialized /\ async_enabled
    /\ output = Some(2)
    /\ async_sender = Some(1)
    /\ cons[1] = "running"

(***************************************************************************)
(* liblogger_macros: log_retries (lib.rs:204-317)                          *)
(*                                                                         *)
(* One call of a wrapped function.  The body is the caller's code: each    *)
(* invocation returns, with Ok or with Err, and carries a value that tells *)
(* one result from another.                                                *)
(***************************************************************************)
\* The largest max_attempts argument tried.
MaxAttempts == 3

\* What one invocation of the body returns: Ok(val) or Err(val).
BodyResults == [ok : BOOLEAN, val : {"x", "y"}]

\* 2u64.pow(attempts - 1) * 50 milliseconds; the product stays in u64 for
\* attempts below 60.
Backoff(attempts) == (2 ^ (attempts - 1)) * 50

\* The top of the loop: attempts += 1 and, from the second attempt on, the
\* "Retry attempt" line and (not in an async function) the sleep.
RetryAttempt ==
    /\ rt.pc = "loop"
    /\ rt' = [rt EXCEPT !.attempts = @ + 1,
                        !.delay = IF rt.attempts + 1 > 1 /\ ~rt.is_async
                                  THEN Backoff(rt.attempts + 1) ELSE 0,
                        !.pc = "body"]
    /\ UNCHANGED <<dispatchVars, fileVars, levelVars, backendVars, breakerVars, throttleVars>>

\* let result = (|| #orig_block)(), or async move #orig_block.await.
RetryBody(result) ==
    /\ rt.pc = "body"
    /\ rt' = [rt EXCEPT !.results = Append(@, result), !.pc = "match"]
    /\ UNCHANGED <<dispatchVars, fileVars, levelVars, backendVars, breakerVars, throttleVars>>

\* A match that gives up only when attempts is past max_attempts.
RetryMatchPastMax ==
    /\ rt.pc = "match"
    /\ LET result == rt.results[Len(rt.results)]
       IN  IF result.ok \/ rt.attempts > rt.max_attempts
           THEN rt' = [rt EXCEPT !.ret = Some(result), !.pc = "returned"]
           ELSE rt' = [rt EXCEPT !.pc = "loop"]
    /\ UNCHANGED <<dispatchVars, fileVars, levelVars, backendVars, breakerVars, throttleVars>>

\* match &result: Ok returns it; Err returns it when attempts >=
\* max_attempts and goes round the loop otherwise.
RetryMatch ==
    /\ rt.pc = "match"
    /\ LET result == rt.results[Len(rt.results)]
       IN  IF result.ok \/ rt.attempts >= rt.max_attempts
           THEN rt' = [rt EXCEPT !.ret = Some(result), !.pc = "returned"]
           ELSE rt' = [rt EXCEPT !.pc = "loop"]
    /\ UNCHANGED <<dispatchVars, fileVars, levelVars, backendVars, breakerVars, throttleVars>>

\* A call of a function wrapped by log_retries(max_attempts = m), sync or
\* async, for each m the bound allows.
InitRetries ==
    /\ LoggerNew
    /\ NoFiles
    /\ NoLevelCall
    /\ NoBackendCall
    /\ NoBreaker
    /\ NoThrottle
    /\ \E a \in BOOLEAN, m \in 0..MaxAttempts :
          rt = [pc |-> "loop", is_async |-> a, max_attempts |-> m, attempts |-> 0,
                delay |-> 0, results |-> <<>>, ret |-> None]

NextRetries ==
    \/ RetryAttempt
    \/ \E result \in BodyResults : RetryBody(result)
    \/ RetryMatch

\* The calling thread keeps running and every invocation of the body
\* returns.
SpecRetries == InitRetries /\ [][NextRetries]_vars /\ WF_vars(NextRetries)

\* The errors of a call's invocations but the last.
EarlierAllFailed == \A i \in 1..(Len(rt.results) - 1) : ~rt.results[i].ok

\* C33 as stated: the body is invoked at most max_attempts times; a call
\* that has returned invoked it at least once and returns its last result,
\* which is the first Ok or, after exactly max_attempts failures, the last
\* error; and every call returns.
C33_AtMostMaxAttempts ==
    /\ [](Len(rt.results) <= rt.max_attempts)
    /\ [](rt.pc = "returned" =>
            /\ Len(rt.results) >= 1
            /\ rt.ret = Some(rt.results[Len(rt.results)])
            /\ EarlierAllFailed
            /\ ~rt.ret[1].ok => Len(rt.results) = rt.max_attempts)
    /\ <>(rt.pc = "returned")

\* max_attempts, and 1 for max_attempts = 0.
AttemptsAllowed == IF rt.max_attempts = 0 THEN 1 ELSE rt.max_attempts

\* C33, amended: as stated for max_attempts >= 1; with max_attempts = 0
\* the body is invoked exactly once and its result is returned.
C33_AtMostMaxAttemptsOrOnce ==
    /\ [](Len(rt.results) <= AttemptsAllowed)
    /\ [](rt.pc = "returned" =>
            /\ Len(rt.results) >= 1
            /\ rt.ret = Some(rt.results[Len(rt.results)])
            /\ EarlierAllFailed
            /\ ~rt.ret[1].ok => Len(rt.results) = AttemptsAllowed)
    /\ <>(rt.pc = "returned")

\* A call with max_attempts = 3 whose three invocations failed, the third
\* with an error unlike the first two, has returned the third error.
C33_Witness ==
    /\ rt.pc = "returned"
    /\ rt.max_attempts = 3
    /\ Len(rt.results) = 3
    /\ rt.results[1] = [ok |-> FALSE, val |-> "x"]
    /\ rt.results[2] = [ok |-> FALSE, val |-> "x"]
    /\ rt.ret = Some([ok |-> FALSE, val |-> "y"])

(***************************************************************************)
(* liblogger_macros: circuit_breaker (lib.rs:380-506)                      *)
(*                                                                         *)
(* One wrapped function, called by the threads of Callers; every access to *)
(* a static is a step of its own.  The body is the caller's code: it takes *)
(* a whole number of seconds, ends with Ok or Err, and ends either as the  *)
(* value of its block or through a `return` or `?` inside the block.       *)
(***************************************************************************)
\* The largest failure_threshold argument tried, and the calls made.
MaxThreshold == 2
MaxCalls == 3

\* How an invocation of the body ends.
BodyOutcomes == [ok : BOOLEAN, secs : {0, 31}, exit : {"value", "return"}]

\* let last_success_time = LAST_SUCCESS.load(Relaxed) (lib.rs:458).
BreakerLoad(c) ==
    /\ cb[c].pc = "idle"
    /\ breaker.ncalls < MaxCalls
    /\ breaker' = [breaker EXCEPT !.ncalls = @ + 1]
    /\ cb' = [cb EXCEPT ![c] = [NoBreakerCall EXCEPT !.pc = "reset",
                                                     !.last_success_time = LAST_SUCCESS]]
    /\ UNCHANGED <<FAILURE_COUNT, LAST_SUCCESS>>
    /\ UNCHANGED <<dispatchVars, fileVars, levelVars, backendVars, retryVars, throttleVars>>

\* lib.rs:460-465: elapsed is `now` minus (a later now minus
\* last_success_time seconds), so it is above 30 s exactly if
\* last_success_time is; FAILURE_COUNT.store(0) in that case.
BreakerReset(c) ==
    /\ cb[c].pc = "reset"
    /\ FAILURE_COUNT' = IF cb[c].last_success_time > 30 THEN 0 ELSE FAILURE_COUNT
    /\ cb' = [cb EXCEPT ![c].pc = "check"]
    /\ UNCHANGED <<LAST_SUCCESS, breaker>>
    /\ UNCHANGED <<dispatchVars, fileVars, levelVars, backendVars, retryVars, throttleVars>>

\* lib.rs:468-476: failures = FAILURE_COUNT.load(); at or above the
\* threshold the call returns Err("Circuit breaker open ...").
BreakerCheck(c) ==
    /\ cb[c].pc = "check"
    /\ IF FAILURE_COUNT >= breaker.threshold
       THEN cb' = [cb EXCEPT ![c].pc = "idle", ![c].ret = Some("open")]
       ELSE cb' = [cb EXCEPT ![c].pc = "body"]
    /\ UNCHANGED <<FAILURE_COUNT, LAST_SUCCESS, breaker>>
    /\ UNCHANGED <<dispatchVars, fileVars, levelVars, backendVars, retryVars, throttleVars>>

\* let result = #orig_block (lib.rs:482): the block is part of the
\* function, so a `return` or `?` in it leaves the function at once;
\* let result = async move #orig_block.await (lib.rs:425): a `return` or
\* `?` ends the async block and its value becomes result.
BreakerBody(c, o) ==
    /\ cb[c].pc = "body"
    /\ IF o.exit = "return" /\ ~breaker.is_async
       THEN cb' = [cb EXCEPT ![c].pc = "idle", ![c].result = Some(o),
                             ![c].ret = Some(IF o.ok THEN "ok" ELSE "err")]
       ELSE cb' = [cb EXCEPT ![c].pc = "match", ![c].result = Some(o)]
    /\ UNCHANGED <<FAILURE_COUNT, LAST_SUCCESS, breaker>>
    /\ UNCHANGED <<dispatchVars, fileVars, levelVars, backendVars, retryVars, throttleVars>>

\* match &result (lib.rs:485-502): Ok stores 0 in FAILURE_COUNT; Err adds
\* 1 to FAILURE_COUNT, and the function returns result.
BreakerMatch(c) ==
    /\ cb[c].pc = "match"
    /\ IF cb[c].result[1].ok
       THEN /\ FAILURE_COUNT' = 0
            /\ cb' = [cb EXCEPT ![c].pc = "stamp"]
       ELSE /\ FAILURE_COUNT' = FAILURE_COUNT + 1
            /\ cb' = [cb EXCEPT ![c].pc = "idle", ![c].ret = Some("err")]
    /\ UNCHANGED <<LAST_SUCCESS, breaker>>
    /\ UNCHANGED <<dispatchVars, fileVars, levelVars, backendVars, retryVars, throttleVars>>

\* The Ok arm's second store (lib.rs:489): now.elapsed().as_secs(), the
\* whole seconds the call has taken, goes to LAST_SUCCESS; the function
\* returns result.
BreakerStamp(c) ==
    /\ cb[c].pc = "stamp"
    /\ LAST_SUCCESS' = cb[c].result[1].secs
    /\ cb' = [cb EXCEPT ![c].pc = "idle", ![c].ret = Some("ok")]
    /\ UNCHANGED <<FAILURE_COUNT, breaker>>
    /\ UNCHANGED <<dispatchVars, fileVars, levelVars, backendVars, retryVars, throttleVars>>

\* A function wrapped by circuit_breaker(failure_threshold = t), sync or
\* async, never called.
InitBreaker ==
    /\ LoggerNew
    /\ NoFiles
    /\ NoLevelCall
    /\ NoBackendCall
    /\ NoRetryCall
    /\ NoThrottle
    /\ FAILURE_COUNT = 0
    /\ LAST_SUCCESS = 0
    /\ cb = [c \in Callers |-> NoBreakerCall]
    /\ \E a \in BOOLEAN, t \in 0..MaxThreshold :
          breaker = [is_async |-> a, threshold |-> t, ncalls |-> 0]

NextBreaker ==
    \/ \E c \in Callers : BreakerLoad(c)
    \/ \E c \in Callers : BreakerReset(c)
    \/ \E c \in Callers : BreakerCheck(c)
    \/ \E c \in Callers, o \in BodyOutcomes : BreakerBody(c, o)
    \/ \E c \in Callers : BreakerMatch(c)
    \/ \E c \in Callers : BreakerStamp(c)

SpecBreaker == InitBreaker /\ [][NextBreaker]_vars

\* The circuit is open and no caller is past the check: every body so far
\* took under a second, so LAST_SUCCESS is 0 and no caller holds another
\* value of it.
Tripped ==
    /\ FAILURE_COUNT >= breaker.threshold
    /\ LAST_SUCCESS = 0
    /\ \A c \in Callers :
          /\ cb[c].pc \in {"idle", "reset", "check"}
          /\ cb[c].last_success_time = 0

\* C34: a call that finds FAILURE_COUNT >= failure_threshold returns the
\* "open" error and does not reach the body; a call whose body has failed
\* returns with FAILURE_COUNT one higher than it was; a call whose body has
\* succeeded returns after it has set FAILURE_COUNT to 0; and once the
\* circuit is open with no call in progress past the check, it stays open
\* and no body is entered.
C34_BreakerCountsFailures ==
    [][/\ \A c \in Callers :
             (cb[c].pc = "check" /\ cb'[c].pc # "check"
                  /\ FAILURE_COUNT >= breaker.threshold) =>
                cb'[c].pc = "idle" /\ cb'[c].ret = Some("open")
       /\ \A c \in Callers :
             (cb[c].pc # "idle" /\ cb'[c].pc = "idle" /\ cb'[c].ret = Some("err")) =>
                FAILURE_COUNT' = FAILURE_COUNT + 1
       /\ \A c \in Callers :
             (cb[c].pc # "idle" /\ cb'[c].pc = "idle" /\ cb'[c].ret = Some("ok")) =>
                cb[c].pc = "stamp"
       /\ \A c \in Callers :
             (cb[c].pc # "stamp" /\ cb'[c].pc = "stamp") => FAILURE_COUNT' = 0
       /\ Tripped => (Tripped' /\ \A c \in Callers : cb'[c].pc # "body")
      ]_vars

(***************************************************************************)
(* liblogger_macros: throttle_log (lib.rs:510-572)                         *)
(*                                                                         *)
(* One wrapped function, called by the threads of Callers while the clock  *)
(* moves from minute to minute; every access to a static is a step of its  *)
(* own.                                                                    *)
(***************************************************************************)
\* The largest rate argument tried, the calls made, the minutes the clock
\* runs through.
MaxRate == 2
MaxThrottleCalls == 3
MaxMinute == 2

\* The wall clock reaches the next minute.
Tick ==
    /\ clock < MaxMinute
    /\ clock' = clock + 1
    /\ UNCHANGED <<COUNTER, LAST_MINUTE, SKIPPED_COUNT, th, throttle, lines>>
    /\ UNCHANGED <<dispatchVars, fileVars, levelVars, backendVars, retryVars, breakerVars>>

\* lib.rs:529-530: current_minute = now.as_secs() / 60.
ThrottleNow(c) ==
    /\ th[c].pc = "idle"
    /\ throttle.ncalls < MaxThrottleCalls
    /\ throttle' = [throttle EXCEPT !.ncalls = @ + 1]
    /\ th' = [th EXCEPT ![c] = [NoThrottleCall EXCEPT !.pc = "load", !.current_minute = clock]]
    /\ UNCHANGED <<COUNTER, LAST_MINUTE, SKIPPED_COUNT, clock, lines>>
    /\ UNCHANGED <<dispatchVars, fileVars, levelVars, backendVars, retryVars, breakerVars>>

\* lib.rs:534-535: last_minute = LAST_MINUTE.load() and the comparison
\* with current_minute.
ThrottleLoad(c) ==
    /\ th[c].pc = "load"
    /\ th' = [th EXCEPT ![c].pc = IF LAST_MINUTE # th[c].current_minute
                                  THEN "minute" ELSE "count"]
    /\ UNCHANGED <<COUNTER, LAST_MINUTE, SKIPPED_COUNT, throttle, clock, lines>>
    /\ UNCHANGED <<dispatchVars, fileVars, levelVars, backendVars, retryVars, breakerVars>>

\* lib.rs:537: LAST_MINUTE.store(current_minute).
ThrottleStoreMinute(c) ==
    /\ th[c].pc = "minute"
    /\ LAST_MINUTE' = th[c].current_minute
    /\ th' = [th EXCEPT ![c].pc = "swap"]
    /\ UNCHANGED <<COUNTER, SKIPPED_COUNT, throttle, clock, lines>>
    /\ UNCHANGED <<dispatchVars, fileVars, levelVars, backendVars, retryVars, breakerVars>>

\* lib.rs:538-545: skipped = SKIPPED_COUNT.swap(0) and, if it is above 0,
\* the line "skipped {} logs in previous minute".
ThrottleSwap(c) ==
    /\ th[c].pc = "swap"
    /\ SKIPPED_COUNT' = 0
    /\ lines' = IF SKIPPED_COUNT > 0
                THEN Append(lines, [minute |-> clock, kind |-> "skipped",
                                    skipped |-> SKIPPED_COUNT])
                ELSE lines
    /\ th' = [th EXCEPT ![c].pc = "reset", ![c].skipped = SKIPPED_COUNT]
    /\ UNCHANGED <<COUNTER, LAST_MINUTE, throttle, clock>>
    /\ UNCHANGED <<dispatchVars, fileVars, levelVars, backendVars, retryVars, breakerVars>>

\* lib.rs:546-547: COUNTER.store(1); should_log is true.
ThrottleResetCounter(c) ==
    /\ th[c].pc = "reset"
    /\ COUNTER' = 1
    /\ th' = [th EXCEPT ![c].pc = "body", ![c].should_log = TRUE]
    /\ UNCHANGED <<LAST_MINUTE, SKIPPED_COUNT, throttle, clock, lines>>
    /\ UNCHANGED <<dispatchVars, fileVars, levelVars, backendVars, retryVars, breakerVars>>

\* lib.rs:550-552: count = COUNTER.fetch_add(1) + 1; should_log is
\* count <= rate.
ThrottleCount(c) ==
    /\ th[c].pc = "count"
    /\ COUNTER' = COUNTER + 1
    /\ LET count == COUNTER + 1
       IN  th' = [th EXCEPT ![c].pc = IF count <= throttle.rate THEN "body" ELSE "skip",
                            ![c].should_log = count <= throttle.rate]
    /\ UNCHANGED <<LAST_MINUTE, SKIPPED_COUNT, throttle, clock, lines>>
    /\ UNCHANGED <<dispatchVars, fileVars, levelVars, backendVars, retryVars, breakerVars>>

\* lib.rs:554-555: SKIPPED_COUNT.fetch_add(1); should_log is false.
ThrottleSkip(c) ==
    /\ th[c].pc = "skip"
    /\ SKIPPED_COUNT' = SKIPPED_COUNT + 1
    /\ throttle' = [throttle EXCEPT !.suppressed = @ + 1]
    /\ th' = [th EXCEPT ![c].pc = "body"]
    /\ UNCHANGED <<COUNTER, LAST_MINUTE, clock, lines>>
    /\ UNCHANGED <<dispatchVars, fileVars, levelVars, backendVars, retryVars, breakerVars>>

\* lib.rs:560: let result = #orig_block.
ThrottleBody(c) ==
    /\ th[c].pc = "body"
    /\ th' = [th EXCEPT ![c].pc = "log", ![c].ran = TRUE]
    /\ UNCHANGED <<COUNTER, LAST_MINUTE, SKIPPED_COUNT, throttle, clock, lines>>
    /\ UNCHANGED <<dispatchVars, fileVars, levelVars, backendVars, retryVars, breakerVars>>

\* lib.rs:563-568: the line "{} executed" if should_log; the function
\* returns result.
ThrottleLog(c) ==
    /\ th[c].pc = "log"
    /\ lines' = IF th[c].should_log
                THEN Append(lines, [minute |-> clock, kind |-> "executed", skipped |-> 0])
                ELSE lines
    /\ th' = [th EXCEPT ![c].pc = "idle"]
    /\ UNCHANGED <<COUNTER, LAST_MINUTE, SKIPPED_COUNT, throttle, clock>>
    /\ UNCHANGED <<dispatchVars, fileVars, levelVars, backendVars, retryVars, breakerVars>>

\* A function wrapped by throttle_log(rate = r), never called.
InitThrottle ==
    /\ LoggerNew
    /\ NoFiles
    /\ NoLevelCall
    /\ NoBackendCall
    /\ NoRetryCall
    /\ NoBreaker
    /\ COUNTER = 0
    /\ LAST_MINUTE = 0
    /\ SKIPPED_COUNT = 0
    /\ th = [c \in Callers |-> NoThrottleCall]
    /\ \E r \in 1..MaxRate : throttle = [rate |-> r, ncalls |-> 0, suppressed |-> 0]
    /\ clock = 1
    /\ lines = <<>>

NextThrottle ==
    \/ Tick
    \/ \E c \in Callers : ThrottleNow(c)
    \/ \E c \in Callers : ThrottleLoad(c)
    \/ \E c \in Callers : ThrottleStoreMinute(c)
    \/ \E c \in Callers : ThrottleSwap(c)
    \/ \E c \in Callers : ThrottleResetCounter(c)
    \/ \E c \in Callers : ThrottleCount(c)
    \/ \E c \in Callers : ThrottleSkip(c)
    \/ \E c \in Callers : ThrottleBody(c)
    \/ \E c \in Callers : ThrottleLog(c)

SpecThrottle == InitThrottle /\ [][NextThrottle]_vars

\* The "executed" lines written during minute m.
ExecutedIn(m) ==
    Cardinality({i \in DOMAIN lines : lines[i].kind = "executed" /\ lines[i].minute = m})

RECURSIVE SkippedReported(_)
\* The sum of the counts in the first n lines that report skipped logs.
SkippedReported(n) ==
    IF n = 0 THEN 0
    ELSE SkippedReported(n - 1) + (IF lines[n].kind = "skipped" THEN lines[n].skipped ELSE 0)

\* C35: every call that returns has run the body; in no minute are more
\* than rate "executed" lines written, whatever the interleaving of the
\* callers; and every call not logged is counted once: the counts reported
\* so far and SKIPPED_COUNT add up to the number of such calls.
C35_AtMostRatePerMinute ==
    /\ [][\A c \in Callers : (th[c].pc # "idle" /\ th'[c].pc = "idle") => th[c].ran]_vars
    /\ [](\A m \in 1..MaxMinute : ExecutedIn(m) <= throttle.rate)
    /\ [](SkippedReported(Len(lines)) + SKIPPED_COUNT = throttle.suppressed)

====
